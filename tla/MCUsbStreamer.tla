---------------------------- MODULE MCUsbStreamer ----------------------------
(* Small instances of UsbStreamer. *)
EXTENDS UsbStreamer, TLC

CONSTANTS a, b, Connections, Storages, Restarts

MCRecords == {<<a>>, <<b, a>>}
MCCdxTexts == {<<>>, <<b>>}
MCFaults ==
    [connection |-> Connections, storage |-> Storages, restart |-> Restarts]
=============================================================================
