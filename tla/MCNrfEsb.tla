------------------------------ MODULE MCNrfEsb ------------------------------
(* Small instances of NrfEsb for TLC: values of its constants.             *)
EXTENDS NrfEsb

CONSTANT d1     \* a payload content

\* The configuration of esb_init in box/main.c and device/main.c: the default
\* one with selective acknowledgment, and no retransmission.
App == [protocol |-> "ESB_DPL", mode |-> "PTX", tx_mode |-> "AUTO",
        selective_auto_ack |-> TRUE, retransmit_count |-> 0,
        retransmit_delay |-> 250, bitrate |-> "2MBPS"]

\* The same with one retransmission, and variations of it.
Ptx    == [App EXCEPT !.retransmit_count = 1]
Prx    == [App EXCEPT !.mode = "PRX"]
Manual == [Ptx EXCEPT !.tx_mode = "MANUAL"]
Legacy == [Manual EXCEPT !.protocol = "ESB", !.selective_auto_ack = FALSE]
Slow   == [Manual EXCEPT !.bitrate = "250KBPS"]

AppConfigs  == {App}
PtxConfigs  == {Ptx}
PrxConfigs  == {Prx}
LiveConfigs == {Manual, Legacy}
SlowConfigs == {Slow}

OnePipe  == {0}
TwoPipes == {0, 1}

\* Payloads the application writes.
ToPipe0(noacks) == [pipe : {0}, noack : noacks, data : {d1}, pid : {0}]
AckOrNot == ToPipe0(BOOLEAN)
AckOnly  == ToPipe0({FALSE})

\* Packets on air: acknowledgments for a PTX, which looks at their data only;
\* payloads for a PRX.
Acks     == [data : {d1, NoData}, pid : {0}, noack : {FALSE}]
EmptyAck == {ZeroPacket}
TwoPids  == [data : {d1}, pid : 0 .. 1, noack : {FALSE}]
Received == TwoPids \cup [data : {d1}, pid : {0}, noack : {TRUE}]

PtxApi  == {"init", "write_payload", "read_rx_payload", "start_tx", "flush_tx"}
PrxApi  == {"init", "read_rx_payload", "start_rx", "stop_rx", "flush_rx",
            "set_rf_channel", "set_prefixes", "enable_pipes", "preempted"}
TurnApi == {"init", "reinit", "disable", "write_payload", "read_rx_payload",
            "start_rx", "stop_rx", "flush_tx"}
LiveApi == {"init", "suspend", "write_payload", "start_tx", "pop_tx",
            "set_addresses"}
SlowApi == {"init", "write_payload", "start_tx"}
AckPayloadApi == {"init", "write_payload", "read_rx_payload", "start_rx"}
PreemptedApi  == {"init", "write_payload", "preempted"}
=============================================================================
