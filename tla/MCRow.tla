------------------------------- MODULE MCRow -------------------------------
(***************************************************************************)
(* An instance of the row product for a 13-bit prime with a root of unity  *)
(* of order 512, so that all lanes fit TLC's integers: the tables are the  *)
(* powers of 62 and their inverses, in the order of the code's tables.     *)
(***************************************************************************)
EXTENDS RecoverW1

MCForward == <<
  1, 4298, 1213, 5756, 7154, 849, 5953, 583, 1366, 2784, 5543, 5033, 2132, 7584,
  5300, 5235, 7351, 2645, 6803, 5408, 4928, 4027, 1846, 7316, 2399, 3000, 6569, 5887,
  3092, 1286, 2268, 675, 5773, 2724, 5258, 1382, 6986, 799, 1875, 1381, 5212, 3380,
  693, 5967, 3074, 732, 3477, 4601, 7479, 7438, 766, 4800, 6601, 5165, 3411, 5130,
  584, 6026, 1740, 4907, 7153, 4232, 4740, 2508, 3844, 7362, 405, 4784, 1996, 6812,
  1633, 5881, 4781, 2063, 198, 6094, 7462, 3501, 3188, 6801, 6526, 5417, 4608, 3566,
  1886, 2573, 6461, 2563, 4556, 2819, 3789, 1402, 3141, 4501, 257, 6203, 1003, 1853,
  3041, 4837, 1408, 6637, 2722, 993, 2880, 4149, 6266, 1682, 3078, 2562, 648, 4582,
  6974, 2990, 2681, 1438, 3901, 6556, 417, 2593, 2044, 5729, 6090, 5653, 5833, 7131,
  1228, 1097, 62, 5322, 6077, 3546, 5731, 6552, 398, 5422, 201, 3626, 5702, 4806,
  1607, 1667, 5998, 1968, 2583, 2689, 7012, 5013, 5977, 3882, 6918, 413, 2799, 1656,
  185, 3987, 7360, 2922, 2358, 3445, 4600, 7587, 3394, 1193, 2996, 3452, 1035, 1131,
  542, 2173, 4561, 1266, 6244, 6979, 506, 1065, 2838, 296, 1406, 5722, 2169, 5309,
  4095, 3139, 5484, 4924, 346, 4675, 5669, 1230, 2002, 1876, 217, 3265, 2067, 4730,
  856, 7570, 1393, 3615, 4544, 5010, 4595, 1459, 1784, 1994, 5631, 6888, 5200, 5571,
  1499, 6024, 1717, 5906, 1170, 5286, 5956, 5796, 4488, 2433, 2717, 2546, 572, 536,
  738, 7352, 4198, 335, 2805, 4401, 7463, 118, 1897, 3765, 4442, 4431, 6492, 5224,
  1771, 7568, 2252, 1036, 4921, 4665, 3751, 7060, 2811, 7146, 3832, 1872, 1211, 4841,
  639, 4305, 7007, 6566>>

MCInverse == <<
  1, 3383, 1925, 6468, 7098, 1728, 6832, 527, 2446, 2381, 97, 5549, 2648, 2138,
  4897, 6315, 7006, 5413, 6395, 4589, 1794, 1112, 4681, 5282, 365, 5835, 3654, 2753,
  2273, 878, 5036, 330, 5173, 2941, 3449, 528, 2774, 5941, 1655, 7097, 2551, 4270,
  2516, 1080, 2881, 6915, 243, 202, 3080, 4204, 6949, 4607, 1714, 6988, 4301, 2469,
  6300, 5806, 6882, 695, 6299, 2423, 4957, 1908, 6584, 6453, 550, 1848, 2028, 1591,
  1952, 5637, 5088, 7264, 1125, 3780, 6243, 5000, 4691, 707, 3099, 7033, 5119, 4603,
  5999, 1415, 3532, 4801, 6688, 4959, 1044, 6273, 2844, 4640, 5828, 6678, 1478, 7424,
  3180, 4540, 6279, 3892, 4862, 3125, 5118, 1220, 5108, 5795, 4115, 3073, 2264, 1155,
  880, 4493, 4180, 219, 1587, 7483, 5618, 2900, 1800, 6048, 869, 5685, 2897, 7276,
  319, 3837, 1115, 674, 3376, 7042, 2840, 6470, 5809, 3849, 535, 4870, 621, 3930,
  3016, 2760, 6645, 5429, 113, 5910, 2457, 1189, 3250, 3239, 3916, 5784, 7563, 218,
  3280, 4876, 7346, 3483, 329, 6943, 7145, 7109, 5135, 4964, 5248, 3193, 1885, 1725,
  2395, 6511, 1775, 5964, 1657, 6182, 2110, 2481, 793, 2050, 5687, 5897, 6222, 3086,
  2671, 3137, 4066, 6288, 111, 6825, 2951, 5614, 4416, 7464, 5805, 5679, 6451, 2012,
  3006, 7335, 2757, 2197, 4542, 3586, 2372, 5512, 1959, 6275, 7385, 4843, 6616, 7175,
  702, 1437, 6415, 3120, 5508, 7139, 6550, 6646, 4229, 4685, 6488, 4287, 94, 3081,
  4236, 5323, 4759, 321, 3694, 7496, 6025, 4882, 7268, 763, 3799, 1704, 2668, 669,
  4992, 5098, 5713, 1683, 6014, 6074, 2875, 1979, 4055, 7480, 2259, 7283, 1129, 1950,
  4135, 1604, 2359, 7619>>

MCFwT  == [j \in 0 .. 255 |-> MCForward[j + 1]]
MCInvT == [j \in 0 .. 255 |-> MCInverse[j + 1]]

(* Coefficients below m that look random, and 256 equal ones.              *)
Poly(x, y, m) ==
  [w \in Words |-> [l \in Lanes |-> ((4 * w + l - 1) * (4 * w + l + y) * x + y) % m]]
Constant(x) == [w \in Words |-> [l \in Lanes |-> x]]

MCInputs == {[q \in 1 .. 5 |-> Poly(3 * q, 5 + q, Q)], [q \in 1 .. 5 |-> Constant(Q - 1)]}
MCA      == [i \in 1 .. 2 |-> [j \in 0 .. 3 |-> Poly(7 * i + j, i, 512)]]
MCT1     == [i \in 1 .. 2 |-> Poly(11, i, 512)]
MCSlacks == {[l \in Lanes |-> 0], [l \in Lanes |-> Q], [l \in Lanes |-> (l % 2) * Q]}
MCDirt   == Constant(77)

(* Masks all clear, all set, scattered, and set at the edges of turns only.*)
MCMask(kind) ==
  [n \in 0 .. 255 |-> IF kind = "all" \/ (kind = "scattered" /\ (n * n + n) % 7 = 2)
                        \/ (kind = "edges" /\ n % 32 \in {0, 31}) THEN 1 ELSE 0]
MCHints ==
  {[k \in 0 .. 1 |-> MCMask(m[k + 1])] :
     m \in {<<"none", "all">>, <<"all", "scattered">>, <<"edges", "none">>, <<"scattered", "edges">>}}
=============================================================================
