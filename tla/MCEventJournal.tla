--------------------------- MODULE MCEventJournal ---------------------------
(* Two kinds of entries, a ring of three slots that wraps more than twice, *)
(* reads of one record (the C64 endpoint) and of two.                      *)
EXTENDS EventJournal

CONSTANTS mode, uplink

MCEntries == {mode, uplink}
MCBuffers == {1, 2}
=============================================================================
