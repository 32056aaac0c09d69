------------------------------ MODULE MCTables -------------------------------
(* TableFlush on a small instance and, from the initial state, the pure     *)
(* algorithms of the queries and the compression: see Tables.cfg.           *)
EXTENDS TableFlush, Queries, Compression, TLC

CONSTANTS r1, r2, v1, deleted

\* Keys 1 and 3 share all their bits while the filter has four.
FirstHash == [k \in Keys |-> k]
SecondHash == [k \in Keys |-> 2]

\* Below all keys.
Before == -1

\* mem, two files of level 0 and one of level 1.
QueryLayers == {<<-2, 0>>, <<0, 0>>, <<0, 1>>, <<1, 0>>}

\* No rule, and one that expires 0 but not 1.
Rules == {[ttl |-> 0, latest |-> 0], [ttl |-> 1, latest |-> 3]}

Samples == {-8, -7, 0, 1, 5, 7}

allTableVars == <<allVars, call, series>>

TablesInit == FlushInit /\ call = NoCall /\ series = <<>>

\* Bound: a table does not look into its entries; when one is a tombstone the
\* queries run one after the other.
OneByOne ==
  (\E t \in Tables, k \in Keys : handed[t][k] \in Tombstones) =>
    Cardinality({r \in Readers : query'[r].pc # "idle"}) <= 1

\* The three share nothing: a behaviour is one of them.
TablesNext ==
  \/ /\ call = NoCall /\ series = <<>> /\ FlushNext /\ OneByOne
     /\ UNCHANGED <<call, series>>
  \/ writes = 0 /\ series = <<>> /\ Ask /\ UNCHANGED <<allVars, series>>
  \/ writes = 0 /\ call = NoCall /\ AddTimestamp /\ UNCHANGED <<allVars, call>>

TablesSpec == TablesInit /\ [][TablesNext]_allTableVars

ReaderSymmetry == Permutations(Readers)
=============================================================================
