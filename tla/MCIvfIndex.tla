------------------------------ MODULE MCIvfIndex ------------------------------
(***************************************************************************)
(* Small instances of IvfIndex.  Vectors lie on a line at multiples of 6,  *)
(* so the means of up to three of them are integers; the trainer is the    *)
(* one of KMeansTrainer for one fixed sequence of generator draws.         *)
(***************************************************************************)
EXTENDS IvfIndexProperties, TLC

CONSTANTS id1, id2, id3

\* Nothing in the index orders ids.
IdSymmetry == Permutations(Ids)

\* f as a table.  TLC keeps the value of a definition but not of a definition a
\* constant is replaced by: each table has a name of its own for that reason.
Table(f) == f @@ <<>>

MCVectors == {0, 6, 18}
MCPoints == 0..18
SquaredL2Table ==
  Table([pair \in MCPoints \X MCVectors |-> (pair[1] - pair[2]) * (pair[1] - pair[2])])
MCSquaredL2 == SquaredL2Table

\* Samples that fail each check of train, and three that pass them.
MCSamples == {<<>>, <<6, WrongDim>>, <<6>>, <<6, 0>>, <<0, 6, 18>>, <<18, 6, 18, 0>>}

Trainer == INSTANCE KMeansTrainer WITH
             Low <- 0, High <- 18, MaxIters <- 25, One <- 1, ToleranceInverse <- 10000,
             Resolution <- 7, sample <- <<>>, working_set <- <<>>, iter <- 0, settled <- FALSE

\* The generator's outputs, in order.
MCDraw(k) == (3 * k + 1) % 7

PicksTable ==
  Table([n \in (TrainingSampleSize + 1)..MaxLen |->
     Trainer!SubsampleIndices(n, [i \in 1..TrainingSampleSize |-> MCDraw(i) % (n - i + 1)])])
MCPicks == PicksTable

KMeansTable ==
  Table([used \in {0, TrainingSampleSize} \X WorkingSets |->
           Trainer!TrainKMeans(used[2], [k \in 1..NClusters |-> MCDraw(used[1] + k)])])
MCKMeans == KMeansTable
=============================================================================
