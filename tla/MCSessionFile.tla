---------------------------- MODULE MCSessionFile ----------------------------
(* An instance of SessionFile for TLC: an XSMP client that saves its state and *)
(* wants to be restarted, and a D-Bus client that only has a command.          *)
EXTENDS SessionFile

MCPlaces == [c \in Ids |-> IF c \in DbusIds THEN {} ELSE Versions]
MCDescriptions == [c \in Ids |-> IF c \in DbusIds THEN {}
                                                  ELSE {[RestartStyleHint |-> "Immediately"]}]
MCDeletions == [c \in Ids |-> IF c \in DbusIds THEN {"RestartCommand"} ELSE {}]
=============================================================================
