-------------------------------- MODULE Files -------------------------------
(***************************************************************************)
(* What the contents of files are to a program that uses them: a sequence  *)
(* of words per file. No call on one file shows in another. A call that    *)
(* reports an error may have stored any part of what it was given.         *)
(***************************************************************************)
EXTENDS Integers, Sequences

CONSTANTS
  Names,      \* the files there can be
  Data,       \* the words a program writes
  MaxRequest  \* the longest write, in words

VARIABLES
  content,    \* the words of each file there is
  failed      \* the last call reported an error

fileVars == <<content, failed>>

Init ==
  /\ content = [g \in {} |-> <<>>]
  /\ failed = FALSE

Existing == DOMAIN content

(* s with n words from position off on replaced, made longer if need be: *)
(* new[p] says which word may stand at p.                                *)
Overwritten(s, t, off, n, new) ==
  /\ Len(t) = IF Len(s) > off + n THEN Len(s) ELSE off + n
  /\ \A p \in 1 .. Len(t) :
       IF p \in off + 1 .. off + n THEN t[p] \in new ELSE t[p] = s[p]

Others(g) ==
  /\ DOMAIN content' = Existing
  /\ \A h \in Existing \ {g} : content'[h] = content[h]

Create(g) ==
  /\ g \notin Existing
  /\ content' = [h \in Existing \cup {g} |-> IF h = g THEN <<>> ELSE content[h]]
  /\ failed' = FALSE

Unlink(g) ==
  /\ content' = [h \in Existing \ {g} |-> content[h]]
  /\ failed' = FALSE

(* A write that reports no error has stored every word. *)
Write(g) ==
  /\ \E off \in 0 .. Len(content[g]), n \in 1 .. MaxRequest, w \in Data :
       Overwritten(content[g], content'[g], off, n, {w})
  /\ Others(g)
  /\ failed' = FALSE

(* A write that reports an error: what it stored, and zeros after that. *)
WriteFailed(g) ==
  /\ \E off \in 0 .. Len(content[g]), n \in 1 .. MaxRequest, w \in Data :
       Overwritten(content[g], content'[g], off, n, {0, w})
  /\ Others(g)
  /\ failed' = TRUE

(* A file is cut short. *)
Truncate(g) ==
  /\ \E n \in 0 .. Len(content[g]) :
       content'[g] = SubSeq(content[g], 1, n)
  /\ Others(g)
  /\ failed' = FALSE

Read ==
  /\ UNCHANGED content
  /\ failed' = FALSE

Next ==
  \/ \E g \in Names : Create(g)
  \/ \E g \in Existing : Unlink(g) \/ Write(g) \/ WriteFailed(g) \/ Truncate(g)
  \/ Read

Spec == Init /\ [][Next]_fileVars

=============================================================================
