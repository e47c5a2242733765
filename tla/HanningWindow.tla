------------------------------- MODULE HanningWindow -------------------------------
(***************************************************************************)
(* src/src/fingerprinting/hanning.rs and the loop of `do_fft` that applies *)
(* its table (algorithm.rs:142-157): one sample of the segment is followed *)
(* from the pass that writes it into the ring to the one that overwrites   *)
(* it, and the entry each pass scales it by.                               *)
(*                                                                         *)
(* The table is the source's, entry by entry.  It gives every one to five  *)
(* significant digits, so an entry stands here as those five, and where its*)
(* point goes follows from how far it is from the nearer end.              *)
(*                                                                         *)
(* An operator whose name holds "_bug" is a mistake this code could have   *)
(* had; it stands beside the definition it would replace and is used by no *)
(* other definition.                                                       *)
(***************************************************************************)
EXTENDS Integers, FiniteSetsExt

CONSTANT ChunkSamples   \* samples one pass brings: 128

RingSamples == 2048

ASSUME ChunkAssumption == ChunkSamples \in 1 .. RingSamples /\ RingSamples % ChunkSamples = 0

VARIABLES
  ring_buffer_of_samples_index,
  slot,     \* where in the ring the sample was written, or -1 before it is
  index     \* its place in the window of the last pass

vars == <<ring_buffer_of_samples_index, slot, index>>

-------------------------------------------------------------------------------
HANNING_WINDOW_2048_MULTIPLIERS ==
  <<
    23508, 94032, 21157, 37612, 58769, 84626, 11518, 15044, 19040, 23506, 28442, 33848, 39723,
    46069, 52884, 60168, 67923, 76147, 84840, 94003, 10363, 11374, 12431, 13535, 14685, 15883,
    17128, 18419, 19757, 21142, 22574, 24053, 25578, 27151, 28770, 30435, 32148, 33907, 35713,
    37566, 39465, 41411, 43403, 45443, 47528, 49661, 51839, 54065, 56337, 58655, 61020, 63431,
    65889, 68393, 70943, 73540, 76183, 78873, 81608, 84390, 87219, 90093, 93013, 95980, 98993,
    10205, 10516, 10831, 11150, 11475, 11804, 12137, 12475, 12818, 13165, 13517, 13873, 14234,
    14600, 14970, 15344, 15724, 16107, 16496, 16889, 17286, 17688, 18094, 18505, 18921, 19341,
    19766, 20195, 20628, 21066, 21509, 21956, 22408, 22864, 23324, 23789, 24259, 24733, 25211,
    25694, 26182, 26674, 27170, 27671, 28176, 28686, 29200, 29718, 30241, 30768, 31300, 31836,
    32377, 32922, 33471, 34025, 34583, 35146, 35712, 36284, 36859, 37439, 38024, 38612, 39205,
    39803, 40404, 41010, 41620, 42235, 42854, 43477, 44105, 44736, 45372, 46013, 46657, 47306,
    47959, 48617, 49278, 49944, 50614, 51288, 51967, 52650, 53337, 54028, 54723, 55423, 56126,
    56834, 57546, 58263, 58983, 59707, 60436, 61169, 61906, 62647, 63392, 64141, 64895, 65652,
    66413, 67179, 67949, 68722, 69500, 70282, 71068, 71858, 72652, 73450, 74252, 75058, 75868,
    76682, 77500, 78321, 79147, 79977, 80811, 81649, 82490, 83336, 84185, 85039, 85896, 86757,
    87622, 88491, 89364, 90241, 91121, 92006, 92894, 93786, 94682, 95582, 96485, 97392, 98303,
    99218, 10014, 10106, 10199, 10292, 10385, 10479, 10573, 10667, 10762, 10857, 10953, 11049,
    11145, 11242, 11339, 11436, 11534, 11632, 11731, 11830, 11929, 12028, 12128, 12228, 12329,
    12430, 12531, 12633, 12735, 12838, 12940, 13043, 13147, 13251, 13355, 13459, 13564, 13669,
    13775, 13881, 13987, 14093, 14200, 14307, 14415, 14523, 14631, 14740, 14849, 14958, 15067,
    15177, 15287, 15398, 15509, 15620, 15731, 15843, 15955, 16068, 16180, 16294, 16407, 16521,
    16635, 16749, 16864, 16979, 17094, 17210, 17325, 17442, 17558, 17675, 17792, 17910, 18027,
    18145, 18264, 18382, 18501, 18620, 18740, 18860, 18980, 19100, 19221, 19342, 19463, 19585,
    19707, 19829, 19951, 20074, 20197, 20320, 20444, 20567, 20691, 20816, 20940, 21065, 21190,
    21316, 21442, 21568, 21694, 21820, 21947, 22074, 22202, 22329, 22457, 22585, 22713, 22842,
    22971, 23100, 23229, 23359, 23489, 23619, 23749, 23880, 24011, 24142, 24273, 24405, 24537,
    24669, 24801, 24934, 25066, 25199, 25333, 25466, 25600, 25734, 25868, 26002, 26137, 26272,
    26407, 26542, 26678, 26813, 26949, 27086, 27222, 27359, 27495, 27632, 27770, 27907, 28045,
    28183, 28321, 28459, 28597, 28736, 28875, 29014, 29153, 29293, 29432, 29572, 29712, 29852,
    29993, 30133, 30274, 30415, 30556, 30698, 30839, 30981, 31123, 31265, 31407, 31550, 31692,
    31835, 31978, 32121, 32264, 32408, 32551, 32695, 32839, 32983, 33127, 33272, 33416, 33561,
    33706, 33851, 33996, 34141, 34287, 34433, 34578, 34724, 34870, 35017, 35163, 35309, 35456,
    35603, 35750, 35897, 36044, 36191, 36339, 36486, 36634, 36782, 36930, 37078, 37226, 37374,
    37522, 37671, 37820, 37968, 38117, 38266, 38415, 38565, 38714, 38863, 39013, 39162, 39312,
    39462, 39612, 39762, 39912, 40062, 40213, 40363, 40513, 40664, 40815, 40965, 41116, 41267,
    41418, 41569, 41721, 41872, 42023, 42174, 42326, 42478, 42629, 42781, 42933, 43084, 43236,
    43388, 43540, 43692, 43844, 43997, 44149, 44301, 44453, 44606, 44758, 44911, 45063, 45216,
    45369, 45521, 45674, 45827, 45980, 46132, 46285, 46438, 46591, 46744, 46897, 47050, 47203,
    47356, 47510, 47663, 47816, 47969, 48122, 48275, 48429, 48582, 48735, 48888, 49042, 49195,
    49348, 49502, 49655, 49808, 49962, 50115, 50268, 50422, 50575, 50728, 50882, 51035, 51188,
    51341, 51495, 51648, 51801, 51954, 52108, 52261, 52414, 52567, 52720, 52873, 53026, 53179,
    53332, 53485, 53638, 53791, 53944, 54097, 54250, 54402, 54555, 54708, 54860, 55013, 55165,
    55318, 55470, 55623, 55775, 55927, 56080, 56232, 56384, 56536, 56688, 56840, 56992, 57143,
    57295, 57447, 57598, 57750, 57901, 58053, 58204, 58355, 58506, 58657, 58808, 58959, 59110,
    59261, 59411, 59562, 59712, 59863, 60013, 60163, 60313, 60463, 60613, 60763, 60912, 61062,
    61211, 61361, 61510, 61659, 61808, 61957, 62106, 62255, 62403, 62552, 62700, 62848, 62996,
    63144, 63292, 63440, 63588, 63735, 63883, 64030, 64177, 64324, 64471, 64617, 64764, 64910,
    65057, 65203, 65349, 65495, 65640, 65786, 65931, 66077, 66222, 66367, 66511, 66656, 66800,
    66945, 67089, 67233, 67377, 67521, 67664, 67807, 67951, 68094, 68236, 68379, 68522, 68664,
    68806, 68948, 69090, 69232, 69373, 69514, 69655, 69796, 69937, 70077, 70218, 70358, 70498,
    70638, 70777, 70916, 71056, 71195, 71333, 71472, 71610, 71748, 71886, 72024, 72162, 72299,
    72436, 72573, 72710, 72846, 72983, 73119, 73254, 73390, 73525, 73661, 73796, 73930, 74065,
    74199, 74333, 74467, 74601, 74734, 74867, 75000, 75133, 75265, 75397, 75529, 75661, 75792,
    75924, 76055, 76185, 76316, 76446, 76576, 76706, 76835, 76965, 77094, 77222, 77351, 77479,
    77607, 77735, 77862, 77989, 78116, 78243, 78369, 78495, 78621, 78747, 78872, 78997, 79122,
    79246, 79371, 79495, 79618, 79742, 79865, 79988, 80110, 80232, 80354, 80476, 80597, 80719,
    80839, 80960, 81080, 81200, 81320, 81439, 81558, 81677, 81796, 81914, 82032, 82149, 82266,
    82383, 82500, 82616, 82732, 82848, 82964, 83079, 83194, 83308, 83422, 83536, 83650, 83763,
    83876, 83989, 84101, 84213, 84324, 84436, 84547, 84657, 84768, 84878, 84988, 85097, 85206,
    85315, 85423, 85531, 85639, 85746, 85853, 85960, 86066, 86172, 86278, 86383, 86488, 86593,
    86697, 86801, 86905, 87008, 87111, 87214, 87316, 87418, 87519, 87620, 87721, 87822, 87922,
    88022, 88121, 88220, 88319, 88417, 88515, 88613, 88710, 88807, 88903, 88999, 89095, 89190,
    89285, 89380, 89474, 89568, 89662, 89755, 89848, 89940, 90032, 90124, 90215, 90306, 90397,
    90487, 90577, 90666, 90755, 90844, 90932, 91020, 91107, 91194, 91281, 91367, 91453, 91539,
    91624, 91709, 91793, 91877, 91961, 92044, 92127, 92209, 92291, 92373, 92454, 92535, 92615,
    92695, 92775, 92854, 92933, 93011, 93089, 93166, 93244, 93320, 93397, 93473, 93548, 93623,
    93698, 93772, 93846, 93920, 93993, 94066, 94138, 94210, 94281, 94352, 94423, 94493, 94563,
    94632, 94701, 94769, 94837, 94905, 94972, 95039, 95105, 95171, 95237, 95302, 95367, 95431,
    95495, 95558, 95621, 95684, 95746, 95807, 95869, 95929, 95990, 96050, 96109, 96168, 96227,
    96285, 96343, 96400, 96457, 96514, 96570, 96625, 96680, 96735, 96789, 96843, 96897, 96950,
    97002, 97054, 97106, 97157, 97208, 97258, 97308, 97357, 97406, 97455, 97503, 97550, 97598,
    97644, 97691, 97736, 97782, 97827, 97871, 97915, 97959, 98002, 98045, 98087, 98129, 98170,
    98211, 98251, 98291, 98331, 98370, 98409, 98447, 98484, 98522, 98558, 98595, 98631, 98666,
    98701, 98735, 98769, 98803, 98836, 98869, 98901, 98933, 98964, 98995, 99025, 99055, 99085,
    99114, 99142, 99170, 99198, 99225, 99251, 99278, 99303, 99329, 99353, 99378, 99402, 99425,
    99448, 99471, 99493, 99514, 99535, 99556, 99576, 99596, 99615, 99634, 99652, 99670, 99687,
    99704, 99720, 99736, 99752, 99767, 99781, 99796, 99809, 99822, 99835, 99847, 99859, 99870,
    99881, 99891, 99901, 99911, 99920, 99928, 99936, 99944, 99951, 99957, 99963, 99969, 99974,
    99979, 99983, 99987, 99990, 99993, 99995, 99997, 99999, 99999, 100000, 100000, 99999, 99999,
    99997, 99995, 99993, 99990, 99987, 99983, 99979, 99974, 99969, 99963, 99957, 99951, 99944,
    99936, 99928, 99920, 99911, 99901, 99891, 99881, 99870, 99859, 99847, 99835, 99822, 99809,
    99796, 99781, 99767, 99752, 99736, 99720, 99704, 99687, 99670, 99652, 99634, 99615, 99596,
    99576, 99556, 99535, 99514, 99493, 99471, 99448, 99425, 99402, 99378, 99353, 99329, 99303,
    99278, 99251, 99225, 99198, 99170, 99142, 99114, 99085, 99055, 99025, 98995, 98964, 98933,
    98901, 98869, 98836, 98803, 98769, 98735, 98701, 98666, 98631, 98595, 98558, 98522, 98484,
    98447, 98409, 98370, 98331, 98291, 98251, 98211, 98170, 98129, 98087, 98045, 98002, 97959,
    97915, 97871, 97827, 97782, 97736, 97691, 97644, 97598, 97550, 97503, 97455, 97406, 97357,
    97308, 97258, 97208, 97157, 97106, 97054, 97002, 96950, 96897, 96843, 96789, 96735, 96680,
    96625, 96570, 96514, 96457, 96400, 96343, 96285, 96227, 96168, 96109, 96050, 95990, 95929,
    95869, 95807, 95746, 95684, 95621, 95558, 95495, 95431, 95367, 95302, 95237, 95171, 95105,
    95039, 94972, 94905, 94837, 94769, 94701, 94632, 94563, 94493, 94423, 94352, 94281, 94210,
    94138, 94066, 93993, 93920, 93846, 93772, 93698, 93623, 93548, 93473, 93397, 93320, 93244,
    93166, 93089, 93011, 92933, 92854, 92775, 92695, 92615, 92535, 92454, 92373, 92291, 92209,
    92127, 92044, 91961, 91877, 91793, 91709, 91624, 91539, 91453, 91367, 91281, 91194, 91107,
    91020, 90932, 90844, 90755, 90666, 90577, 90487, 90397, 90306, 90215, 90124, 90032, 89940,
    89848, 89755, 89662, 89568, 89474, 89380, 89285, 89190, 89095, 88999, 88903, 88807, 88710,
    88613, 88515, 88417, 88319, 88220, 88121, 88022, 87922, 87822, 87721, 87620, 87519, 87418,
    87316, 87214, 87111, 87008, 86905, 86801, 86697, 86593, 86488, 86383, 86278, 86172, 86066,
    85960, 85853, 85746, 85639, 85531, 85423, 85315, 85206, 85097, 84988, 84878, 84768, 84657,
    84547, 84436, 84324, 84213, 84101, 83989, 83876, 83763, 83650, 83536, 83422, 83308, 83194,
    83079, 82964, 82848, 82732, 82616, 82500, 82383, 82266, 82149, 82032, 81914, 81796, 81677,
    81558, 81439, 81320, 81200, 81080, 80960, 80839, 80719, 80597, 80476, 80354, 80232, 80110,
    79988, 79865, 79742, 79618, 79495, 79371, 79246, 79122, 78997, 78872, 78747, 78621, 78495,
    78369, 78243, 78116, 77989, 77862, 77735, 77607, 77479, 77351, 77222, 77094, 76965, 76835,
    76706, 76576, 76446, 76316, 76185, 76055, 75924, 75792, 75661, 75529, 75397, 75265, 75133,
    75000, 74867, 74734, 74601, 74467, 74333, 74199, 74065, 73930, 73796, 73661, 73525, 73390,
    73254, 73119, 72983, 72846, 72710, 72573, 72436, 72299, 72162, 72024, 71886, 71748, 71610,
    71472, 71333, 71195, 71056, 70916, 70777, 70638, 70498, 70358, 70218, 70077, 69937, 69796,
    69655, 69514, 69373, 69232, 69090, 68948, 68806, 68664, 68522, 68379, 68236, 68094, 67951,
    67807, 67664, 67521, 67377, 67233, 67089, 66945, 66800, 66656, 66511, 66367, 66222, 66077,
    65931, 65786, 65640, 65495, 65349, 65203, 65057, 64910, 64764, 64617, 64471, 64324, 64177,
    64030, 63883, 63735, 63588, 63440, 63292, 63144, 62996, 62848, 62700, 62552, 62403, 62255,
    62106, 61957, 61808, 61659, 61510, 61361, 61211, 61062, 60912, 60763, 60613, 60463, 60313,
    60163, 60013, 59863, 59712, 59562, 59411, 59261, 59110, 58959, 58808, 58657, 58506, 58355,
    58204, 58053, 57901, 57750, 57598, 57447, 57295, 57143, 56992, 56840, 56688, 56536, 56384,
    56232, 56080, 55927, 55775, 55623, 55470, 55318, 55165, 55013, 54860, 54708, 54555, 54402,
    54250, 54097, 53944, 53791, 53638, 53485, 53332, 53179, 53026, 52873, 52720, 52567, 52414,
    52261, 52108, 51954, 51801, 51648, 51495, 51341, 51188, 51035, 50882, 50728, 50575, 50422,
    50268, 50115, 49962, 49808, 49655, 49502, 49348, 49195, 49042, 48888, 48735, 48582, 48429,
    48275, 48122, 47969, 47816, 47663, 47510, 47356, 47203, 47050, 46897, 46744, 46591, 46438,
    46285, 46132, 45980, 45827, 45674, 45521, 45369, 45216, 45063, 44911, 44758, 44606, 44453,
    44301, 44149, 43997, 43844, 43692, 43540, 43388, 43236, 43084, 42933, 42781, 42629, 42478,
    42326, 42174, 42023, 41872, 41721, 41569, 41418, 41267, 41116, 40965, 40815, 40664, 40513,
    40363, 40213, 40062, 39912, 39762, 39612, 39462, 39312, 39162, 39013, 38863, 38714, 38565,
    38415, 38266, 38117, 37968, 37820, 37671, 37522, 37374, 37226, 37078, 36930, 36782, 36634,
    36486, 36339, 36191, 36044, 35897, 35750, 35603, 35456, 35309, 35163, 35017, 34870, 34724,
    34578, 34433, 34287, 34141, 33996, 33851, 33706, 33561, 33416, 33272, 33127, 32983, 32839,
    32695, 32551, 32408, 32264, 32121, 31978, 31835, 31692, 31550, 31407, 31265, 31123, 30981,
    30839, 30698, 30556, 30415, 30274, 30133, 29993, 29852, 29712, 29572, 29432, 29293, 29153,
    29014, 28875, 28736, 28597, 28459, 28321, 28183, 28045, 27907, 27770, 27632, 27495, 27359,
    27222, 27086, 26949, 26813, 26678, 26542, 26407, 26272, 26137, 26002, 25868, 25734, 25600,
    25466, 25333, 25199, 25066, 24934, 24801, 24669, 24537, 24405, 24273, 24142, 24011, 23880,
    23749, 23619, 23489, 23359, 23229, 23100, 22971, 22842, 22713, 22585, 22457, 22329, 22202,
    22074, 21947, 21820, 21694, 21568, 21442, 21316, 21190, 21065, 20940, 20816, 20691, 20567,
    20444, 20320, 20197, 20074, 19951, 19829, 19707, 19585, 19463, 19342, 19221, 19100, 18980,
    18860, 18740, 18620, 18501, 18382, 18264, 18145, 18027, 17910, 17792, 17675, 17558, 17442,
    17325, 17210, 17094, 16979, 16864, 16749, 16635, 16521, 16407, 16294, 16180, 16068, 15955,
    15843, 15731, 15620, 15509, 15398, 15287, 15177, 15067, 14958, 14849, 14740, 14631, 14523,
    14415, 14307, 14200, 14093, 13987, 13881, 13775, 13669, 13564, 13459, 13355, 13251, 13147,
    13043, 12940, 12838, 12735, 12633, 12531, 12430, 12329, 12228, 12128, 12028, 11929, 11830,
    11731, 11632, 11534, 11436, 11339, 11242, 11145, 11049, 10953, 10857, 10762, 10667, 10573,
    10479, 10385, 10292, 10199, 10106, 10014, 99218, 98303, 97392, 96485, 95582, 94682, 93786,
    92894, 92006, 91121, 90241, 89364, 88491, 87622, 86757, 85896, 85039, 84185, 83336, 82490,
    81649, 80811, 79977, 79147, 78321, 77500, 76682, 75868, 75058, 74252, 73450, 72652, 71858,
    71068, 70282, 69500, 68722, 67949, 67179, 66413, 65652, 64895, 64141, 63392, 62647, 61906,
    61169, 60436, 59707, 58983, 58263, 57546, 56834, 56126, 55423, 54723, 54028, 53337, 52650,
    51967, 51288, 50614, 49944, 49278, 48617, 47959, 47306, 46657, 46013, 45372, 44736, 44105,
    43477, 42854, 42235, 41620, 41010, 40404, 39803, 39205, 38612, 38024, 37439, 36859, 36284,
    35712, 35146, 34583, 34025, 33471, 32922, 32377, 31836, 31300, 30768, 30241, 29718, 29200,
    28686, 28176, 27671, 27170, 26674, 26182, 25694, 25211, 24733, 24259, 23789, 23324, 22864,
    22408, 21956, 21509, 21066, 20628, 20195, 19766, 19341, 18921, 18505, 18094, 17688, 17286,
    16889, 16496, 16107, 15724, 15344, 14970, 14600, 14234, 13873, 13517, 13165, 12818, 12475,
    12137, 11804, 11475, 11150, 10831, 10516, 10205, 98993, 95980, 93013, 90093, 87219, 84390,
    81608, 78873, 76183, 73540, 70943, 68393, 65889, 63431, 61020, 58655, 56337, 54065, 51839,
    49661, 47528, 45443, 43403, 41411, 39465, 37566, 35713, 33907, 32148, 30435, 28770, 27151,
    25578, 24053, 22574, 21142, 19757, 18419, 17128, 15883, 14685, 13535, 12431, 11374, 10363,
    94003, 84840, 76147, 67923, 60168, 52884, 46069, 39723, 33848, 28442, 23506, 19040, 15044,
    11518, 84626, 58769, 37612, 21157, 94032, 23508
  >>

\* Steps from the zero that the table leaves out at the nearer end.
Steps(i) == IF i < RingSamples \div 2 THEN i + 1 ELSE RingSamples - i

\* Decimals the source writes to give five digits: one more for every zero.
Decimals(i) ==
  CASE Steps(i) <= 2 -> 10
    [] Steps(i) \in 3 .. 6 -> 9
    [] Steps(i) \in 7 .. 20 -> 8
    [] Steps(i) \in 21 .. 65 -> 7
    [] Steps(i) \in 66 .. 209 -> 6
    [] OTHER -> 5

Entry(digits, i) == [digits |-> digits, decimals |-> Decimals(i)]

\* One wrong digit, the last of one entry: 0.89567 for 0.89568.
Multiplier_bug(i) ==
  Entry(IF i = 1238 THEN 89567 ELSE HANNING_WINDOW_2048_MULTIPLIERS[i + 1], i)
Multiplier(i) == Entry(HANNING_WINDOW_2048_MULTIPLIERS[i + 1], i)

-------------------------------------------------------------------------------
Wrap(i) == i % RingSamples

\* The window's place `i` is filled from the ring's slot `i + index`, masked.
PlaceOf_bug(s, ring_index) == Wrap(ring_index - s)
PlaceOf(s, ring_index) == Wrap(s - ring_index)

Init ==
  /\ ring_buffer_of_samples_index \in {i \in 0 .. RingSamples - 1 : i % ChunkSamples = 0}
  /\ slot = -1
  /\ index = -1

\* The slots the next chunk is copied into.
Written == ring_buffer_of_samples_index .. ring_buffer_of_samples_index + ChunkSamples - 1

\* A pass that still has the sample in its ring, the first being its own.
Advance == Wrap(ring_buffer_of_samples_index + ChunkSamples)

Hear(s) ==
  /\ ring_buffer_of_samples_index' = Advance
  /\ slot' = s
  /\ index' = PlaceOf(s, Advance)

DoFft ==
  \/ slot = -1 /\ \E s \in Written : Hear(s)
  \/ slot # -1 /\ slot \notin Written /\ Hear(slot)

Next == DoFft

Spec == Init /\ [][Next]_vars

-------------------------------------------------------------------------------
(* Numbers from 0 to 1 to 21 decimals, three to a place. *)

Places == 1 .. 7
Numbers == [Places -> Int]

Normal[x \in Numbers] ==
  LET carry[i \in 1 .. 8] == IF i = 8 THEN 0 ELSE (x[i] + carry[i + 1]) \div 1000
  IN  [i \in Places |-> (x[i] + carry[i + 1]) % 1000]

Scaled[n \in Nat, x \in Numbers] == Normal[[i \in Places |-> n * x[i]]]
Less[x \in Numbers, y \in Numbers] == Normal[[i \in Places |-> x[i] - y[i]]]
Complement[x \in Numbers] == [i \in Places |-> (IF i = 7 THEN 1000 ELSE 999) - x[i]]
Times[x \in Numbers, y \in Numbers] ==
  Normal[[i \in Places |-> MapThenSumSet(LAMBDA j : x[j] * y[i - j], 1 .. i - 1)]]

\* The first `n` decimals.
Truncated(x, n) ==
  LET digit(p) == x[(p + 2) \div 3] \div <<1, 100, 10>>[(p % 3) + 1] % 10
      read[p \in 0 .. n] == IF p = 0 THEN 0 ELSE 10 * read[p - 1] + digit(p)
  IN  read[n]

\* A 128th of a step of the window, squared: (pi / (2049 * 128))^2.
PartOfStep == <<0, 0, 0, 143, 481, 493, 727>>
Third == <<333, 333, 333, 333, 333, 333, 333>>

\* sin^2 of so many steps: x^2 - x^4 / 3 of a 128th of the angle, and seven times
\* the double of an angle, 4 h (1 - h).
Small[x \in Numbers] == Less[x, Times[Third, Times[x, x]]]
Doubled[h \in Numbers] == Scaled[4, Times[h, Complement[h]]]
SineSquared(steps) ==
  LET of[n \in 0 .. 7] == IF n = 0 THEN Small[Scaled[steps * steps, PartOfStep]]
                          ELSE Doubled[of[n - 1]]
  IN  of[7]

Window == [steps \in 1 .. RingSamples \div 2 |-> SineSquared(steps)]

-------------------------------------------------------------------------------
(* Properties. *)

\* The table is the Hann window of 2049 steps with its zeros left out, every digit
\* of it: an entry is within half a unit of its last digit, and the two thousandths
\* by which two entries of the source that lie halfway are rounded the other way.
HannWindow ==
  index # -1 =>
    LET m == Multiplier(index)
    IN  1000 * m.digits - Truncated(Window[Steps(index)], m.decimals + 3) \in -502 .. 502

AtMost(m, n) ==
  \/ m.decimals > n.decimals
  \/ m.decimals = n.decimals /\ m.digits <= n.digits

\* A sample enters a window at its newest end and fades in over eight passes,
\* then out over eight: the ring is reordered the way the window expects.
FadesInThenOut ==
  [][slot # -1 =>
       /\ index' < index
       /\ index' >= RingSamples \div 2 => AtMost(Multiplier(index), Multiplier(index'))
       /\ index < RingSamples \div 2 => AtMost(Multiplier(index'), Multiplier(index))]_vars
================================================================================
