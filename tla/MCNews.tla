------------------------------- MODULE MCNews -------------------------------
(***************************************************************************)
(* Instances of News for TLC.  The launch announces two watches, the       *)
(* review repeats the second, and the strap is an accessory for it.  The   *)
(* merge key is the first reference of an announcement.                    *)
(***************************************************************************)
EXTENDS News

CONSTANTS launch, review, strap, gshock, oceanus, edifice

MCRefs == [a \in Announcement |-> CASE a = launch -> {gshock, oceanus}
                                   [] a = review -> {oceanus} [] OTHER -> {}]
MCKey == [a \in Announcement |-> IF a = launch THEN gshock ELSE oceanus]

(* The third watch stands behind the ceiling.                              *)
MCSitemap == <<gshock, oceanus, edifice>>
OneItem == <<gshock>>

Full == [catalogue |-> TRUE, forced |-> FALSE, discord |-> TRUE]
Muted == [catalogue |-> TRUE, forced |-> TRUE, discord |-> FALSE]
FullOnly == {Full}
MCModes == {Full, Muted}
=============================================================================
