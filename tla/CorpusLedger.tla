---------------------------- MODULE CorpusLedger ----------------------------
(***************************************************************************)
(* What corpus_transaction.py promises its consumers (backup, audits, the  *)
(* Postgres projection), seen through the journal alone: a versioned vault *)
(* that moves from one whole content to the next, one transaction at a     *)
(* time.  The version is the corpus epoch; it counts the transactions that *)
(* changed something, and nothing else moves it.                           *)
(***************************************************************************)
EXTENDS Naturals

CONSTANTS Pages, Text, InitialWiki

VARIABLES
  content,   \* the vault as the journal describes it
  version,   \* the corpus epoch
  receipts   \* ids of the transactions that have a journal record

vars == <<content, version, receipts>>

Init ==
  /\ content = InitialWiki
  /\ version = 0
  /\ receipts = {}

\* One transaction, finished by its writer or by whoever recovered it: a new
\* receipt, a whole new content, and a new version if the content differs.
Commit ==
  /\ \E t \in receipts' : t \notin receipts /\ receipts' = receipts \cup {t}
  /\ content' \in [Pages -> Text]
  /\ version' = IF content' = content THEN version ELSE version + 1

Next == Commit

Spec == Init /\ [][Next]_vars
=============================================================================
