--------------------------- MODULE MCKMeansTrainer ---------------------------
(***************************************************************************)
(* Every sample of three or four points on four positions, duplicates      *)
(* included, two samples of six points on which Lloyd's iterations empty a *)
(* cluster after the first pass although there are more distinct points    *)
(* than clusters, and one longer than the cap.  Positions are multiples of *)
(* 60, so that the mean of up to six of them is an integer.                *)
(***************************************************************************)
EXTENDS KMeansTrainer

MCPositions == {0, 60, 120, 420}

MCEmptying ==
  {<<0, 120, 420, 480, 480, 720>>, <<0, 240, 240, 300, 600, 720>>}

\* One point more than a cap of six, at three positions.
MCBeyondTheCap == {<<60, 60, 0, 60, 420, 420, 0>>}

MCSamples ==
  UNION {[1..n -> MCPositions] : n \in 3..4} \cup MCEmptying \cup MCBeyondTheCap

\* Samples longer than a cap of two, with and without duplicates.
MCLongSamples ==
  {<<0, 60, 120, 420>>, <<0, 60, 120, 240, 420>>, <<60, 60, 0, 60, 420>>}

\* Samples far from the origin, where the tolerance is wider than the gaps
\* between neighbours, and narrower than those between groups of them.  On the
\* first two of the long ones a cluster is emptied; on the others the loop stops
\* with a cluster that the last moves have emptied.
MCFar == 1260

MCFarSamples ==
  {[i \in DOMAIN s |-> MCFar + s[i]] : s \in
     [1..4 -> {0, 120, 1200}] \cup
     {<<0, 480, 480, 540, 1080, 1200>>, <<0, 60, 120, 600, 660, 1200>>,
      <<420, 660, 660, 720, 1020, 1140>>, <<120, 180, 180, 480, 540, 780>>}}

MCSquaredL2 ==
  [pair \in Coordinates \X Coordinates |-> (pair[1] - pair[2]) * (pair[1] - pair[2])]

ASSUME LineAssumption == ExactMeans
=============================================================================
