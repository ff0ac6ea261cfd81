------------------------------ MODULE MCPipelines ------------------------------
(***************************************************************************)
(* A small instance of Pipelines: the repository knows the washer's manual *)
(* and its records; the dryer's is new.  The washer's manual has a second  *)
(* edition, in which one code chunk and one table differ.                  *)
(***************************************************************************)
EXTENDS Pipelines

MCManuals == {"dryer", "washer"}

MCProducts == {"D100", "W200"}

MCVersions == {"1st", "2nd"}

MCFirstManifest == <<[id |-> "washer", product |-> "W200"]>>

MCChunks == {"codes", "more", "revised", "dryer codes"}

MCCandidatesOf ==
    [washer |-> ("1st" :> <<"codes", "more">> @@ "2nd" :> <<"codes", "revised">>),
     dryer |-> ("1st" :> <<"dryer codes">> @@ "2nd" :> <<>>)]

MCExtractors == {"stub", "bedrock"}

MCFirstIndex ==
    <<[manual |-> "washer", chunk |-> "codes", by |-> "bedrock"],
      [manual |-> "washer", chunk |-> "more", by |-> "bedrock"]>>

MCTables == {"t1", "t2", "t2'"}

MCTablesOf ==
    [washer |-> ("1st" :> <<"t1", "t2">> @@ "2nd" :> <<"t1", "t2'">>),
     dryer |-> [v \in MCVersions |-> <<>>]]

MCEstimate == [t \in MCTables |-> 2]

(* The dryer's manual is that of the whole series: its codes are printed   *)
(* as in the washer's.                                                     *)
FamilyCandidatesOf ==
    [washer |-> [v \in MCVersions |-> <<"codes">>], dryer |-> [v \in MCVersions |-> <<"codes">>]]

================================================================================
