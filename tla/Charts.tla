-------------------------------- MODULE Charts --------------------------------
(***************************************************************************)
(* common/charts.py: how the rows the transfers logged become the groups    *)
(* of a chart.  Rows are selected by run, side, QoS level and file size,    *)
(* and grouped by series and size; the values of a group are averaged.      *)
(*                                                                         *)
(* The order of the rows plays no part, so what was logged is a bag of      *)
(* rows.  A row has the value of the charted column, None for a cell        *)
(* without a number ("X").  A header that two containers wrote (see         *)
(* RunRegistry) is read as a row whose cells are the names of the columns.  *)
(***************************************************************************)
EXTENDS Naturals, Bags, BagsExt, FiniteSets

CONSTANTS
    Runs,           \* run directories
    Plans,          \* campaigns: the rows that may be logged, and how many
    None

ASSUME ChartPlan ==
    \A plan \in Plans :
        /\ plan.size \in Nat
        /\ \A r \in plan.rows :
            /\ r.run \in Runs
            /\ r.side \in {"", "sender", "receiver", "client", "side"}
            /\ r.qos \in {"1", "2", "qos", None}
            /\ r.value \in Nat \cup {None}

VARIABLES
    plan,       \* the campaign
    logged      \* the rows of its runs

vars == <<plan, logged>>

Init == plan \in Plans /\ logged = EmptyBag

\* a client, or a receiver, appends its row
LogRow(r) ==
    /\ BagCardinality(logged) < plan.size
    /\ logged' = BagAdd(logged, r)
    /\ UNCHANGED plan

Full == BagCardinality(logged) = plan.size

Next ==
    \/ \E r \in plan.rows : LogRow(r)
    \/ Full /\ UNCHANGED vars

Spec == Init /\ [][Next]_vars

----------------------------------------------------------------------------
(* Selection: _collect, of the rows of the runs named by --run or --runs    *)

Protocols == {r.protocol : r \in DOMAIN logged}

\* rows_by_protocol
RowsOf(protocol, args) ==
    {r \in DOMAIN logged : r.protocol = protocol /\ r.run \in args.runs}

\* int(qos) of a header raises, and no chart is made
Raises(protocol, args) ==
    protocol = "mqtt" /\ args.qos # {} /\ \E r \in RowsOf(protocol, args) : r.qos = "qos"

\* --qos and --file-sizes; rows without a QoS level pass the first
PassesFilters(r, args) ==
    /\ args.qos = {} \/ r.qos = None \/ r.qos \in args.qos
    /\ args.sizes = {} \/ r.size \in args.sizes \cup {None}

\* Mutant of SideValues: the sides of the rows that pass the filters.
SideValuesFiltered(protocol, args) ==
    {r.side : r \in {s \in RowsOf(protocol, args) : PassesFilters(s, args)}} \ {""}

\* the sides the rows of a protocol come from
SideValues(protocol, args) == {r.side : r \in RowsOf(protocol, args)} \ {""}

\* --side: auto takes the sender's rows, or those of the only other side
EffectiveSide(protocol, args) ==
    LET sides == SideValues(protocol, args)
    IN  CASE args.side = "both" -> None
          [] args.side \notin {"auto", "both"} -> args.side
          [] args.side = "auto" ->
                IF "sender" \in sides THEN "sender"
                ELSE IF Cardinality(sides) = 1 THEN CHOOSE side \in sides : TRUE
                ELSE None

\* the rows whose values are charted
Charted(protocol, args) ==
    LET side == EffectiveSide(protocol, args)
    IN  {r \in RowsOf(protocol, args) :
            /\ PassesFilters(r, args)
            /\ side = None \/ r.side \in {"", side}
            /\ r.value # None}

\* a point of a series: the values of one protocol, QoS level and size
Groups(protocol, args) ==
    {{r \in Charted(protocol, args) : r.qos = s.qos /\ r.size = s.size} :
        s \in Charted(protocol, args)}

----------------------------------------------------------------------------
\* what may be charted of what was logged, side by side
Args(side) ==
    [runs : (SUBSET Runs) \ {{}}, side : {side},
     qos : {{}} \cup {{r.qos} : r \in {s \in DOMAIN logged : s.qos \in {"1", "2"}}},
     sizes : {{}} \cup {{r.size} : r \in {s \in DOMAIN logged : s.size # None}}]

\* With the default --side auto, whatever runs are merged, whatever header was
\* written twice and however the chart is narrowed: a series never mixes the rows
\* of two sides (charts.py:263-267), no value of a sender, or of the only side, is
\* left out, and narrowing by QoS or size only removes groups, it never changes
\* one that stays.
SelectionNeverMixes ==
    \A args \in Args("auto"), protocol \in Protocols :
        ~Raises(protocol, args) =>
            LET charted == Charted(protocol, args)
                whole == [args EXCEPT !.qos = {}, !.sizes = {}]
                all == Charted(protocol, whole)
                main == IF "sender" \in SideValues(protocol, args) THEN {"sender"}
                        ELSE {"", "receiver", "client"}
            IN  /\ Cardinality({r.side : r \in charted}) <= 1
                /\ charted = {r \in all : PassesFilters(r, args)}
                /\ Groups(protocol, args) \subseteq Groups(protocol, whole)
                /\ {r \in RowsOf(protocol, args) : r.side \in main /\ r.value # None} \subseteq all
=============================================================================
