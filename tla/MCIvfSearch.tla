------------------------------ MODULE MCIvfSearch ------------------------------
(***************************************************************************)
(* Searches in the states of the small instances of MCIvfIndex.            *)
(***************************************************************************)
EXTENDS MCIvfIndex, IvfSearchProperties

\* One refused for its dimension, one the quantizer alone refuses, one above the cap.
MCPqSamples == {<<6, WrongDim>>, <<6, 0>>, <<18, 6, 18, 0>>}

\* All but one of the ids: interchangeable, as the ids are.
MCFilters == {Ids \ {id} : id \in Ids}

EuclideanTable ==
  Table([pair \in MCVectors \X MCPoints |->
           IF pair[1] < pair[2] THEN pair[2] - pair[1] ELSE pair[1] - pair[2]])
MCEuclidean == EuclideanTable

\* Searches by vector are run under the metric StoredVectorIsFound is about.
ASSUME VectorMetric == UsePq \/ MetricAgrees

\* A query along each direction and one orthogonal to everything.
MCDirections == {-1, 0, 1}
DotTable == Table([pair \in MCDirections \X MCPoints |-> pair[1] * pair[2]])
MCDot == DotTable

\* A codebook of two points, the ends of its sample; a code is the nearer one.
ReconstructTable ==
  Table([code \in (UNION {[1..n -> MCVectors] : n \in 3..4}) \X MCVectors |->
    LET least    == CHOOSE x \in Range(code[1]) : \A y \in Range(code[1]) : x <= y
        greatest == CHOOSE x \in Range(code[1]) : \A y \in Range(code[1]) : x >= y
    IN  IF SquaredL2Table[least, code[2]] <= SquaredL2Table[greatest, code[2]]
        THEN least ELSE greatest])
MCReconstruct == ReconstructTable
=============================================================================
