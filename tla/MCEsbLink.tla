----------------------------- MODULE MCEsbLink -----------------------------
(* A small instance of EsbLink for TLC.                                    *)
EXTENDS EsbLink, TLC

CONSTANTS d1, d2

Contents == {d1, d2}

\* The configuration of the applications with one retransmission.
Sender == [protocol |-> "ESB_DPL", mode |-> "PTX", tx_mode |-> "AUTO",
           selective_auto_ack |-> TRUE, retransmit_count |-> 1,
           retransmit_delay |-> 250, bitrate |-> "2MBPS"]
Receiver == [Sender EXCEPT !.mode = "PRX"]

\* What the applications write: payloads in a row with the same content, which only
\* their ids tell apart, and with another, which shows the order they come in.
ContentsWritten  == <<d1, d1, d2, d1>>
ContentsAnswered == <<d1, d2>>

\* A call in progress writes what comes next.
Follows(seq, call, script) ==
  call.at = "write" => call.payload.data = script[Len(seq) + 1]

\* Next, with applications that write these contents.
MCNext ==
  \/ SenderCalls /\ Follows(written, s_call, ContentsWritten)'
  \/ ReceiverCalls /\ Follows(answers, r_call, ContentsAnswered)'
  \/ SenderIrq \/ ReceiverIrq
  \/ PacketArrives \/ PacketLost \/ AckArrives \/ AckLost
  \/ AckWindowCloses \/ RetransmitDelay

MCSpec == Init /\ [][MCNext]_vars
=============================================================================
