-------------------------- MODULE VersionHistory ---------------------------
(***************************************************************************)
(* What publishing promises, whatever editors do at the same time: the      *)
(* published versions of a flow are a history.  It only grows, by one       *)
(* version at a time, under the next number, and every version in it has    *)
(* passed validation.  FlowLifecycle implements this specification.         *)
(***************************************************************************)
EXTENDS Sequences

CONSTANTS Content, Sound

VARIABLE published      \* a sequence of contents, the version number its index

HistoryInit == published = <<>>

Publish(c) ==
  /\ c \in Sound
  /\ published' = Append(published, c)

HistoryNext == \E c \in Content : Publish(c)

HistorySpec == HistoryInit /\ [][HistoryNext]_published
=============================================================================
