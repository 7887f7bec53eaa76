------------------------------ MODULE MCCharts ------------------------------
(* A campaign of few rows of every shape, over two runs, one of which has a *)
(* header too many.                                                         *)
EXTENDS Charts

MCRuns == {"a", "b"}

Row(protocol, run, side, qos, size, value) ==
    [protocol |-> protocol, run |-> run, side |-> side, qos |-> qos,
     size |-> size, value |-> value]

MqttRows ==
    {Row("mqtt", run, side, qos, size, 8) :
        run \in MCRuns, side \in {"sender", "receiver"}, qos \in {"1", "2"}, size \in {5, 20}}
OtherRows ==
    {Row("lwm2m", run, "client", None, size, 8) : run \in MCRuns, size \in {5, 20}}
        \cup {Row("mqtt", run, "receiver", "1", 5, None) : run \in MCRuns}
        \cup {Row("mqtt", "b", "side", "qos", None, None)}

MCShapes == {[rows |-> MqttRows \cup OtherRows, size |-> 4]}
=============================================================================
