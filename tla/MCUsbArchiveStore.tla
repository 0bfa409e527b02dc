-------------------------- MODULE MCUsbArchiveStore --------------------------
EXTENDS UsbArchiveStore

CONSTANTS WarcLength, CdxLength, Crashes, PowerLosses, OsErrors

MCMaxLength == [k \in Kinds |-> IF k = "warc" THEN WarcLength ELSE CdxLength]
MCMaxFaults == [f \in FaultSorts |->
                   CASE f = "crash" -> Crashes
                     [] f = "power" -> PowerLosses
                     [] f = "oserror" -> OsErrors]

\* Stores and payloads are interchangeable: no action names one of them.
Symmetry == Permutations(Stores) \union Permutations(Chunks)
=============================================================================
