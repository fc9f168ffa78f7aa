----------------------------- MODULE ResultPanel -----------------------------
(***************************************************************************)
(* How a result is laid out as matrices, one per phase, with a row per     *)
(* source, a column per destination, and the upper triangle shown          *)
(* (result-panel.component.ts and its template).                           *)
(***************************************************************************)
EXTENDS TestCases

\* A result: [provisioned, skipped], sequences of rows of the input, and [outcomes].
ParsedRows(result) == result.provisioned \o result.skipped

Elements(seq) == {seq[i] : i \in DOMAIN seq}

FindCluster(rows, subnet, vrf) ==
  LET hits == Kept(rows, {i \in DOMAIN rows : rows[i].subnet = subnet /\ rows[i].vrf = vrf})
  IN IF hits = <<>> THEN 0 ELSE hits[1].cluster

\* An endpoint without a cluster gets that of the first row of its subnet and its VRF.
\* Results name no VRF, and rows have one.
Located(rows, endpoint) ==
  IF endpoint[2] # 0 THEN endpoint ELSE <<endpoint[1], FindCluster(rows, endpoint[1], 0)>>

DetailsOf(result) ==
  LET rows == ParsedRows(result)
  IN [i \in DOMAIN result.outcomes |->
        [result.outcomes[i] EXCEPT !.src = Located(rows, @), !.dst = Located(rows, @)]]

EndpointsOf(details) ==
  [k \in 1..(2 * Len(details)) |->
     IF k % 2 = 1 THEN details[(k + 1) \div 2].src ELSE details[k \div 2].dst]

\* Faulty: by cluster, then subnet.
PanelSortByCluster(rows) ==
  Sorted(rows, {p \in (DOMAIN rows) \X (DOMAIN rows) :
    LET a == rows[p[1]]
        b == rows[p[2]]
    IN \/ a.cluster < b.cluster
       \/ a.cluster = b.cluster /\ (a.subnet < b.subnet \/ (a.subnet = b.subnet /\ p[1] < p[2]))})

\* The rows of the input in the order in which the server has paired them.
PanelSort(rows) == Sorted(rows, Earlier(rows))

\* The endpoints of the result: those of the input in order, then the others.
AxisOf(result, details) ==
  LET ends   == EndpointsOf(details)
      sorted == PanelSort(result.provisioned)
      known  == {i \in DOMAIN sorted : ends = <<>> \/ Endpoint(sorted[i]) \in Elements(ends)}
  IN Distinct(Kept([i \in DOMAIN sorted |-> Endpoint(sorted[i])], known) \o ends)

Index(axis, e) == CHOOSE i \in DOMAIN axis : axis[i] = e

\* isUpperTriangleCell
UpperTriangle(axis, src, dst) == Index(axis, src) < Index(axis, dst)

\* The phases known by name in this order, then others, then custom rows by row and step.
PhaseRank(kind) ==
  CASE kind = "intra-subnet" -> 1 [] kind = "intra-vrf" -> 2 [] kind = "cross-vrf-allowlist" -> 3
    [] kind = "cross-vrf-block" -> 4 [] kind = "network" -> 5 [] kind = "custom" -> 6
PhaseNumber(p) == <<PhaseRank(p.kind), p.row, p.step>>

PhaseOrder(details) ==
  LET phases  == {details[i].phase : i \in DOMAIN details}
      numbers == {PhaseNumber(p) : p \in phases}
  IN Arranged(phases, {pair \in phases \X phases :
                         <<PhaseNumber(pair[1]), PhaseNumber(pair[2])>> \in Lexicographic(numbers)})

MatrixOf(details, axis, phase) ==
  LET cases == Kept(details, {i \in DOMAIN details : details[i].phase = phase})
      pairs == {<<cases[i].src, cases[i].dst>> : i \in DOMAIN cases}
      rows  == Kept(axis, {i \in DOMAIN axis : \E j \in DOMAIN axis :
                             i < j /\ <<axis[i], axis[j]>> \in pairs})
      cols  == Kept(axis, {j \in DOMAIN axis : \E i \in DOMAIN axis :
                             i < j /\ axis[i] \in Elements(rows) /\ <<axis[i], axis[j]>> \in pairs})
  IN [phase |-> phase, cases |-> cases, rows |-> rows, cols |-> cols, axis |-> axis]

CellsFor(matrix, src, dst) ==
  IF ~UpperTriangle(matrix.axis, src, dst) THEN <<>>
  ELSE Kept(matrix.cases, {i \in DOMAIN matrix.cases : matrix.cases[i].src = src /\ matrix.cases[i].dst = dst})

ProcessResult(result) ==
  LET details == DetailsOf(result)
      axis    == AxisOf(result, details)
      order   == PhaseOrder(details)
      passed  == Len(details) - Cardinality(Failed(details))
  IN [details  |-> details,
      matrices |-> [m \in DOMAIN order |-> MatrixOf(details, axis, order[m])],
      total    |-> Len(details),
      passed   |-> passed,
      failed   |-> Len(details) - passed]

-----------------------------------------------------------------------------
\* The cells of all matrices in which a case is seen.
CellsOf(matrices, d) ==
  LET ends == UNION {Elements(matrices[m].axis) : m \in DOMAIN matrices}
  IN {cell \in (DOMAIN matrices) \X ends \X ends :
        LET matrix == matrices[cell[1]]
        IN /\ cell[2] \in Elements(matrix.rows) /\ cell[3] \in Elements(matrix.cols)
           /\ d \in Elements(CellsFor(matrix, cell[2], cell[3]))}

\* Every case between two rows of the input is in one cell of one matrix.
EachCaseOnce(processed) ==
  \A i \in DOMAIN processed.details :
    processed.details[i].phase.kind \in Pairwise =>
      \E cell \in CellsOf(processed.matrices, processed.details[i]) :
         CellsOf(processed.matrices, processed.details[i]) = {cell}

\* What the server stores as the result of a run: cases of pairs of rows are between
\* endpoints that the server has paired.
Phases == [kind : {"intra-subnet", "custom"} \cup Pairwise, row : Nat, step : Nat]
ResultOfARun(result) ==
  /\ result.provisioned \in Seq(NetRows) /\ result.skipped \in Seq(NetRows)
  /\ Len(result.outcomes) \in Nat /\ DOMAIN result.outcomes = 1..Len(result.outcomes)
  /\ \A i \in DOMAIN result.outcomes :
       /\ result.outcomes[i].phase \in Phases
       /\ result.outcomes[i].phase.kind \in Pairwise =>
            LET cases == GenerateTestCases(result.provisioned)
            IN \E k \in DOMAIN cases : /\ result.outcomes[i].src = cases[k].src
                                       /\ result.outcomes[i].dst = cases[k].dst
=============================================================================
