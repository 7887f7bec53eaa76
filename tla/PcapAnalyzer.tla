---------------------------- MODULE PcapAnalyzer ----------------------------
(***************************************************************************)
(* analyze_pcap of common/pcap_analyzer.py: what is computed from the       *)
(* capture of one transfer.  A capture is a bag of frames; tshark, which    *)
(* reads the frames' fields, is external.  A frame has its source, its      *)
(* type ("con" and "ack" of CoAP, "tcp"), its message ID, its length, and   *)
(* whether tshark flags it as a TCP retransmission.                         *)
(***************************************************************************)
EXTENDS Integers, Bags, FiniteSetsExt

\* how many of these frames were captured
CountOf(pcap, frames) == MapThenSumSet(LAMBDA f : pcap[f], frames)

\* PROTOCOL_CONFIG: the protocols whose retransmissions are those of TCP
IsTcp(protocol) == protocol \notin {"coap", "lwm2m"}

\* Mutant of TotalWireBytes: the frames of the server only.
ServerWireBytes(pcap) ==
    MapThenSumSet(LAMBDA f : IF f.src = "server" THEN pcap[f] * f.len ELSE 0,
                  DOMAIN pcap)

\* total_wire_bytes: frame.len over all captured frames
TotalWireBytes(pcap) ==
    MapThenSumSet(LAMBDA f : pcap[f] * f.len, DOMAIN pcap)

\* Mutant of ConCounts: frames that carry a message ID, whatever their type.
MidCounts(pcap) ==
    LET coap == {f \in DOMAIN pcap : f.type # "tcp"}
    IN  [mid \in {f.mid : f \in coap} |-> CountOf(pcap, {f \in coap : f.mid = mid})]

\* con_counts: confirmable messages by message ID and source
ConCounts(pcap) ==
    LET con == {f \in DOMAIN pcap : f.type = "con"}
    IN  [key \in {<<f.mid, f.src>> : f \in con} |->
            CountOf(pcap, {f \in con : <<f.mid, f.src>> = key})]

\* frames tshark flags, or the repeats of confirmable messages
Retransmissions(pcap, protocol) ==
    IF IsTcp(protocol)
    THEN CountOf(pcap, {f \in DOMAIN pcap : f.flagged})
    ELSE LET counts == ConCounts(pcap)
         IN  MapThenSumSet(LAMBDA key : counts[key] - 1, DOMAIN counts)

\* "PCAP contains no packets": the analysis raises
NothingCaptured(pcap) == pcap = EmptyBag

\* the "capture looks incomplete" WARNING
LooksIncomplete(pcap, fileSize) == TotalWireBytes(pcap) < fileSize

\* what is logged: the counters the properties are about
Analysis(pcap, fileSize, protocol) ==
    [retransmissions |-> Retransmissions(pcap, protocol),
     overhead |-> TotalWireBytes(pcap) - fileSize,
     warned |-> LooksIncomplete(pcap, fileSize)]
=============================================================================
