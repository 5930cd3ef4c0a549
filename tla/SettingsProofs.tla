--------------------------- MODULE SettingsProofs ---------------------------
(***************************************************************************)
(* The chat settings, for any number of writers, texts of any size and any *)
(* number of crashes: IInv of ChatState is inductive, ChatState implements *)
(* the register of SettingsRegister, and a PUT that runs alone keeps what  *)
(* its reply said.                                                         *)
(*                                                                         *)
(* Then the panel's chat card over them, for any number of saves and other *)
(* clients: every step is one of the settings or leaves them alone, so     *)
(* that what is proved of them holds with the page in front; and PanelIInv *)
(* is inductive, so that the card tells the truth.                         *)
(***************************************************************************)
EXTENDS Panel, SequenceTheorems, TLAPS


-----------------------------------------------------------------------------
\* Texts and files.

\* What a layout of a choice is read as, and what texts are made of.
LEMMA TextFacts ==
    ASSUME NEW s \in Settings
    PROVE  /\ Text[s] \in Seq(Bytes) /\ Len(Text[s]) \in Nat
           /\ Text[s] # <<>>
           /\ \A bytes \in Layouts[s] : bytes \in Seq(Bytes) /\ Parses(bytes) /\ Parsed(bytes) = s
           /\ Text[s] \in Layouts[s]
<1>1. Text[s] \in Seq(Bytes) /\ Layouts[s] \in SUBSET Seq(Bytes) /\ Text[s] \in Layouts[s]
  BY LayoutAssumption
<1>2. Len(Text[s]) \in Nat
  BY <1>1, LenProperties
<1>3. Text[s] # <<>>
  BY <1>1, BraceAssumption
<1>4. ASSUME NEW bytes \in Layouts[s]
      PROVE  bytes \in Seq(Bytes) /\ Parses(bytes) /\ Parsed(bytes) = s
  <2>1. bytes \in Seq(Bytes) /\ Parses(bytes)
    BY <1>1 DEF Parses
  <2>2. Parsed(bytes) \in Settings /\ bytes \in Layouts[Parsed(bytes)]
    BY DEF Parsed
  <2>3. Layouts[Parsed(bytes)] \cap Layouts[s] # {}
    BY <2>2
  <2>4. QED
    BY <2>1, <2>2, <2>3, LayoutAssumption
<1>5. QED
  BY <1>1, <1>2, <1>3, <1>4

\* What is read is a choice, of which the bytes are a layout.
LEMMA ParsedFacts ==
    ASSUME NEW bytes, Parses(bytes)
    PROVE  Parsed(bytes) \in Settings /\ bytes \in Layouts[Parsed(bytes)]
BY DEF Parses, Parsed

\* An empty file reads as nothing.
LEMMA EmptyReads == ~Parses(<<>>)
BY BraceAssumption DEF Parses

\* What begins with a whole text reads as that choice, or as nothing.
LEMMA WholeReads ==
    ASSUME NEW s \in Settings, NEW bytes, IsPrefix(Text[s], bytes), Parses(bytes)
    PROVE  Parsed(bytes) = s
BY ParsedFacts, BraceAssumption

\* A part of a text reads as nothing.
LEMMA PartReads ==
    ASSUME NEW s \in Settings, NEW bytes, IsPrefix(bytes, Text[s]), bytes # Text[s]
    PROVE  ~Parses(bytes)
BY ParsedFacts, BraceAssumption

\* A sequence whose elements are the first of another is its prefix.
LEMMA PrefixIs ==
    ASSUME NEW S, NEW s \in Seq(S), NEW t \in Seq(S), Len(s) <= Len(t),
           \A i \in 1..Len(s) : s[i] = t[i]
    PROVE  IsPrefix(s, t)
<1>1. Len(s) \in Nat /\ Len(t) \in Nat
  BY LenProperties
<1>2. SubSeq(s, 1, Len(s)) = s
  BY SubSeqFull
<1>3. \A i \in 1..Len(s) : i \in 1..Len(t)
  BY <1>1
<1>4. \A i \in 1..Len(s) : t[i] \in S
  BY <1>3, ElementOfSeq
<1> DEFINE part == SubSeq(t, 1, Len(s))
<1>5. /\ part \in Seq(S) /\ Len(part) = (IF 1 <= Len(s) THEN Len(s) - 1 + 1 ELSE 0)
      /\ \A i \in 1..(Len(s) - 1 + 1) : part[i] = t[1 + i - 1]
  BY <1>1, <1>4, SubSeqProperties
<1>6. Len(s) - 1 + 1 = Len(s) /\ \A i \in 1..Len(s) : 1 + i - 1 = i
  BY <1>1
<1> HIDE DEF part
<1>7. Len(part) = Len(s)
  BY <1>1, <1>5
<1>8. \A i \in 1..Len(s) : s[i] = part[i]
  BY <1>5, <1>6
<1>9. s = part
  BY <1>5, <1>7, <1>8, SeqEqual
<1>10. QED
  BY <1>2, <1>9 DEF IsPrefix, part

\* The first n bytes of a text.
LEMMA PartFacts ==
    ASSUME NEW s \in Settings, NEW n \in 0..Len(Text[s]),
           NEW part, part = SubSeq(Text[s], 1, n)
    PROVE  /\ part \in Seq(Bytes) /\ Len(part) = n
           /\ \A i \in 1..n : part[i] = Text[s][i]
           /\ n = Len(Text[s]) => part = Text[s]
<1>1. Text[s] \in Seq(Bytes) /\ Len(Text[s]) \in Nat
  BY TextFacts
<1>2. n \in Nat /\ n <= Len(Text[s])
  BY <1>1
<1>3. \A i \in 1..n : i \in 1..Len(Text[s])
  BY <1>1, <1>2
<1>4. \A i \in 1..n : Text[s][i] \in Bytes
  BY <1>1, <1>3, ElementOfSeq
<1>5. /\ part \in Seq(Bytes) /\ Len(part) = (IF 1 <= n THEN n - 1 + 1 ELSE 0)
      /\ \A i \in 1..(n - 1 + 1) : part[i] = Text[s][1 + i - 1]
  BY <1>2, <1>4, SubSeqProperties
<1>6. n - 1 + 1 = n /\ \A i \in 1..n : 1 + i - 1 = i
  BY <1>2
<1>7. n = Len(Text[s]) => part = Text[s]
  BY <1>1, SubSeqFull
<1>8. QED
  BY <1>2, <1>5, <1>6, <1>7

\* A write over a file: its own bytes, and behind them what was longer.
LEMMA OverwriteFacts ==
    ASSUME NEW old \in Seq(Bytes), NEW part \in Seq(Bytes)
    PROVE  /\ Overwrite(old, part) \in Seq(Bytes)
           /\ IsPrefix(part, Overwrite(old, part))
           /\ Len(old) <= Len(part) => Overwrite(old, part) = part
           /\ part = <<>> => Overwrite(old, part) = old
<1> DEFINE rest == SubSeq(old, Len(part) + 1, Len(old))
<1>1. Len(old) \in Nat /\ Len(part) \in Nat
  BY LenProperties
<1>2. \A i \in (Len(part) + 1)..Len(old) : i \in 1..Len(old)
  BY <1>1
<1>3. \A i \in (Len(part) + 1)..Len(old) : old[i] \in Bytes
  BY <1>2, ElementOfSeq
<1>4. rest \in Seq(Bytes)
  BY <1>1, <1>3, SubSeqProperties
<1>5. Overwrite(old, part) = part \o rest
  BY DEF Overwrite
<1>6. Len(old) <= Len(part) => rest = <<>>
  BY <1>1, SubSeqEmpty
<1>7. part = <<>> => rest = old
  BY EmptySeq, SubSeqFull
<1> HIDE DEF rest
<1>8. /\ part \o rest \in Seq(Bytes) /\ Len(part \o rest) = Len(part) + Len(rest)
      /\ \A i \in 1..(Len(part) + Len(rest)) :
           (part \o rest)[i] = IF i <= Len(part) THEN part[i] ELSE rest[i - Len(part)]
  BY <1>4, ConcatProperties
<1>9. Len(rest) \in Nat
  BY <1>4, LenProperties
<1>10. Len(part) <= Len(part \o rest) /\ \A i \in 1..Len(part) : part[i] = (part \o rest)[i]
  BY <1>1, <1>8, <1>9
<1>11. IsPrefix(part, part \o rest)
  BY <1>8, <1>10, PrefixIs
<1>12. part \o <<>> = part /\ <<>> \o old = old
  BY ConcatEmptySeq
<1>13. QED
  BY <1>5, <1>6, <1>7, <1>8, <1>11, <1>12

\* What a file reads as once the first n bytes of a text have been written over
\* it: what it did if there were none, that text's choice or nothing if that is
\* all of them, and nothing if what was there was not longer.
LEMMA WrittenReads ==
    ASSUME NEW old \in Seq(Bytes), NEW s \in Settings, NEW n \in 0..Len(Text[s]),
           NEW new, new = Overwrite(old, SubSeq(Text[s], 1, n))
    PROVE  /\ new \in Seq(Bytes)
           /\ n = 0 => new = old
           /\ n = Len(Text[s]) /\ Parses(new) => Parsed(new) = s
           /\ n # Len(Text[s]) /\ n >= Len(old) => ~Parses(new)
           /\ n = Len(Text[s]) /\ old = <<>> => new = Text[s]
<1>1. PICK part : part = SubSeq(Text[s], 1, n)
  OBVIOUS
<1>2. /\ part \in Seq(Bytes) /\ Len(part) = n
      /\ \A i \in 1..n : part[i] = Text[s][i]
      /\ n = Len(Text[s]) => part = Text[s]
  BY <1>1, PartFacts
<1>3. Text[s] \in Seq(Bytes) /\ Len(Text[s]) \in Nat
  BY TextFacts
<1>4. /\ new \in Seq(Bytes) /\ IsPrefix(part, new)
      /\ Len(old) <= Len(part) => new = part
      /\ part = <<>> => new = old
  BY <1>1, <1>2, OverwriteFacts
<1>5. IsPrefix(part, Text[s])
  <2>1. Len(part) <= Len(Text[s]) /\ \A i \in 1..Len(part) : part[i] = Text[s][i]
    BY <1>2, <1>3
  <2>2. QED
    BY <1>2, <1>3, <2>1, PrefixIs
<1>6. n = 0 => part = <<>>
  BY <1>2, EmptySeq
<1>7. n = Len(Text[s]) /\ Parses(new) => Parsed(new) = s
  BY <1>2, <1>4, WholeReads
<1>8. n # Len(Text[s]) /\ n >= Len(old) => ~Parses(new)
  <2>1. SUFFICES ASSUME n # Len(Text[s]), n >= Len(old) PROVE ~Parses(part)
    BY <1>2, <1>4
  <2>2. part # Text[s]
    BY <1>2, <2>1
  <2>3. QED
    BY <1>5, <2>2, PartReads
<1>9. old = <<>> => Len(old) = 0
  BY EmptySeq
<1>10. QED
  BY <1>2, <1>4, <1>6, <1>7, <1>8, <1>9

\* What a start comes up with is a choice, and one that was there before unless
\* the file is torn.
LEMMA LoadedFacts ==
    ASSUME TypeOK, ReadsAsApplied
    PROVE  Loaded \in Settings /\ (~torn => Loaded \in EverApplied)
<1>1. Default \in Settings /\ Default \in EverApplied
  BY SettingsAssumption DEF EverApplied
<1>2. CASE Parses(file)
  BY <1>2, ParsedFacts DEF Loaded, ReadsAsApplied
<1>3. CASE ~Parses(file)
  BY <1>1, <1>3 DEF Loaded
<1>4. QED
  BY <1>2, <1>3

-----------------------------------------------------------------------------
\* What the steps do to the handlers and to what has been applied.

\* Handler p is at place, and nothing else of any handler changes.
Moved(p, place) ==
    /\ put' \in [Puts -> [at : Places, new : Settings]]
    /\ put'[p].at = place /\ put'[p].new = put[p].new
    /\ \A q \in Puts \ {p} : put'[q] = put[q]

\* Goto moves a handler and changes nothing else of it.
LEMMA GotoMoves ==
    ASSUME TypeOK, NEW p \in Puts, NEW place \in Places, Goto(p, place)
    PROVE  Moved(p, place)
BY DEF TypeOK, Goto, Moved

\* The choice of p has been applied.
Counts(p) == put[p].at \notin {"idle", "rejected", "apply", "dropped"}

\* What a restart may bring back is what it was, as long as the same requests
\* count, with the same choices.
LEMMA SameEver ==
    ASSUME found' = found,
           \A p \in Puts : Counts(p)' <=> Counts(p),
           \A p \in Puts : Counts(p) => put'[p].new = put[p].new
    PROVE  EverApplied' = EverApplied
BY DEF EverApplied, Counts

\* A handler that goes on after it has applied its choice, or is turned away,
\* applies nothing.
LEMMA MovedEver ==
    ASSUME NEW p \in Puts, NEW place, Moved(p, place), found' = found,
           Counts(p) <=> place \notin {"idle", "rejected", "apply", "dropped"}
    PROVE  EverApplied' = EverApplied
<1>1. \A q \in Puts : Counts(q)' <=> Counts(q)
  BY DEF Moved, Counts
<1>2. \A q \in Puts : put'[q].new = put[q].new
  BY DEF Moved
<1>3. QED
  BY <1>1, <1>2, SameEver

\* Nobody but the request that runs alone has a step to disturb it with.
LEMMA AloneKept ==
    ASSUME IInv, NEW p \in Puts, put[p].at \in Running, NEW place, Moved(p, place),
           latest' = latest,
           AloneOK(p) =>
              /\ place \in {"open", "write", "reply"} => memory' = put[p].new
              /\ place = "write" => file' = <<>>
              /\ place \in {"reply", "ok"} => file' = Text[put[p].new]
              /\ place = "ok" /\ up' => memory' = put[p].new
              /\ place = "failed" /\ crashes' = 0 => memory' = put[p].new
    PROVE  \A q \in Puts : latest' = q => AloneOK(q)'
<1> SUFFICES ASSUME NEW q \in Puts, latest = q PROVE AloneOK(q)'
  OBVIOUS
<1>1. AloneOK(q)
  BY DEF IInv
<1>2. q = p
  BY <1>1 DEF AloneOK
<1>3. put'[p].at = place /\ put'[p].new = put[p].new
  BY DEF Moved
<1>4. \A x \in Puts \ {p} : put'[x].at \notin Running
  BY <1>1, <1>2 DEF AloneOK, Moved
<1>5. QED
  BY <1>1, <1>2, <1>3, <1>4 DEF AloneOK, At

\* A handler that goes on leaves a sound set of handlers, if it runs with an
\* accepted choice or no longer runs.
LEMMA HandlersKept ==
    ASSUME IInv, NEW p \in Puts, put[p].at \in Running, NEW place, Moved(p, place), up' = up
    PROVE  HandlersOK'
BY DEF IInv, HandlersOK, Moved

-----------------------------------------------------------------------------
\* Each action preserves IInv.

\* A choice is accepted, or turned away.
LEMMA ReceiveInv ==
    ASSUME IInv, NEW p \in Puts, Receive(p)
    PROVE  IInv' /\ memory' = memory /\ torn' = torn /\ EverApplied' = EverApplied
<1>1. /\ TypeOK /\ up' = up /\ memory' = memory /\ file' = file /\ torn' = torn
      /\ found' = found /\ crashes' = crashes /\ up /\ put[p].at = "idle"
  BY DEF IInv, Receive, At
<1>2. PICK s \in Settings :
        /\ put' = [put EXCEPT ![p] = [at |-> IF Accepts(s) THEN "apply" ELSE "rejected", new |-> s]]
        /\ latest' = IF ~Accepts(s) THEN latest
                     ELSE IF \E q \in Puts : put[q].at \in Running THEN NoPut ELSE p
  BY DEF Receive
<1>3. PICK place : place = IF Accepts(s) THEN "apply" ELSE "rejected"
  OBVIOUS
<1>4. place \in Places /\ (place \in Running <=> Accepts(s)) /\ place \in {"apply", "rejected"}
  BY <1>3 DEF Places, Running
<1>5. /\ put' \in [Puts -> [at : Places, new : Settings]]
      /\ put'[p].at = place /\ put'[p].new = s
      /\ \A q \in Puts \ {p} : put'[q] = put[q]
  <2>1. PICK e : e = [at |-> place, new |-> s]
    OBVIOUS
  <2>2. e \in [at : Places, new : Settings] /\ e.at = place /\ e.new = s
    BY <1>4, <2>1
  <2>3. put' = [put EXCEPT ![p] = e]
    BY <1>2, <1>3, <2>1
  <2>4. QED
    BY <1>1, <2>2, <2>3 DEF TypeOK
<1>6. EverApplied' = EverApplied
  <2>1. \A q \in Puts : Counts(q)' <=> Counts(q)
    BY <1>1, <1>4, <1>5 DEF Counts
  <2>2. \A q \in Puts : Counts(q) => put'[q].new = put[q].new
    BY <1>1, <1>5 DEF Counts
  <2>3. QED
    BY <1>1, <2>1, <2>2, SameEver
<1>7. TypeOK'
  BY <1>1, <1>2, <1>5 DEF TypeOK
<1>8. HandlersOK'
  BY <1>1, <1>4, <1>5 DEF IInv, HandlersOK, Accepts
<1>9. ReadsAsApplied'
  BY <1>1, <1>6 DEF IInv, ReadsAsApplied, Parses, Parsed
<1>10. ASSUME NEW q \in Puts, latest' = q
       PROVE  AloneOK(q)'
  <2>1. CASE Accepts(s)
    <3>1. q = p /\ \A x \in Puts : put[x].at \notin Running
      BY <1>2, <1>10, <2>1, PutsAssumption
    <3>2. \A x \in Puts \ {p} : put'[x].at \notin Running
      BY <1>5, <3>1
    <3>3. put'[p].at = "apply"
      BY <1>3, <1>5, <2>1
    <3>4. QED
      BY <3>1, <3>2, <3>3 DEF AloneOK, At
  <2>2. CASE ~Accepts(s)
    <3>1. AloneOK(q) /\ put'[p].at = "rejected" /\ "rejected" \notin Running
      BY <1>2, <1>3, <1>5, <1>10, <2>2 DEF IInv, Running
    <3>2. \A x \in Puts \ {q} : put'[x].at \notin Running
      BY <1>5, <3>1 DEF AloneOK
    <3>3. CASE q = p
      BY <3>1, <3>2, <3>3 DEF AloneOK, At
    <3>4. CASE q # p
      BY <1>1, <1>5, <3>1, <3>2, <3>4 DEF AloneOK, At
    <3>5. QED
      BY <3>3, <3>4
  <2>3. QED
    BY <2>1, <2>2
<1>11. QED
  BY <1>1, <1>6, <1>7, <1>8, <1>9, <1>10 DEF IInv

\* A choice goes into memory, and may come back from then on.
LEMMA ApplyInv ==
    ASSUME IInv, NEW p \in Puts, Apply(p)
    PROVE  /\ IInv'
           /\ put[p].new \in Valid /\ memory' = put[p].new /\ torn' = torn
           /\ EverApplied' = EverApplied \cup {put[p].new}
<1>1. /\ TypeOK /\ up' = up /\ file' = file /\ found' = found /\ latest' = latest
      /\ crashes' = crashes /\ put[p].at = "apply" /\ memory' = put[p].new
      /\ put[p].new \in Settings /\ torn' = torn
  BY DEF IInv, Apply, At, TypeOK
<1>2. "open" \in Places /\ put[p].at \in Running
  BY <1>1 DEF Places, Running
<1>3. Moved(p, "open")
  BY <1>1, <1>2, GotoMoves DEF Apply
<1>4. put[p].new \in Valid
  BY <1>2 DEF IInv, HandlersOK
<1>5. EverApplied' = EverApplied \cup {put[p].new}
  <2>1. \A q \in Puts : Counts(q)' <=> Counts(q) \/ q = p
    BY <1>1, <1>3 DEF Moved, Counts
  <2>2. \A q \in Puts : put'[q].new = put[q].new
    BY <1>3 DEF Moved
  <2>3. QED
    BY <1>1, <2>1, <2>2 DEF EverApplied, Counts
<1>6. TypeOK'
  BY <1>1, <1>3 DEF TypeOK, Moved
<1>7. HandlersOK'
  BY <1>1, <1>2, <1>3, HandlersKept
<1>8. ReadsAsApplied'
  BY <1>1, <1>5 DEF IInv, ReadsAsApplied, Parses, Parsed
<1>9. \A q \in Puts : latest' = q => AloneOK(q)'
  BY <1>1, <1>2, <1>3, AloneKept
<1>10. QED
  BY <1>1, <1>4, <1>5, <1>6, <1>7, <1>8, <1>9 DEF IInv

\* The file is opened, and is empty then; or cannot be, and is as it was.
LEMMA OpenInv ==
    ASSUME IInv, NEW p \in Puts, Open(p) \/ OpenFails(p)
    PROVE  IInv' /\ memory' = memory /\ torn' \in BOOLEAN /\ EverApplied' = EverApplied
<1>1. /\ TypeOK /\ up' = up /\ found' = found /\ latest' = latest
      /\ crashes' = crashes /\ put[p].at = "open" /\ memory' = memory
  BY DEF IInv, Open, OpenFails, AfterError, At
<1>2. {"write", "failed"} \subseteq Places /\ put[p].at \in Running
  BY <1>1 DEF Places, Running
<1>3. \/ Moved(p, "write") /\ file' = <<>> /\ torn' = FALSE
      \/ Moved(p, "failed") /\ file' = file /\ torn' = torn
  BY <1>1, <1>2, GotoMoves DEF Open, OpenFails, Truncated
<1>4. EverApplied' = EverApplied
  BY <1>1, <1>3, MovedEver DEF Counts
<1>5. TypeOK'
  BY <1>1, <1>3, EmptySeq DEF TypeOK, Moved
<1>6. HandlersOK'
  BY <1>1, <1>2, <1>3, HandlersKept
<1>7. ReadsAsApplied'
  <2>1. CASE file' = <<>>
    BY <2>1, EmptyReads DEF ReadsAsApplied, Parses
  <2>2. CASE file' = file /\ torn' = torn
    BY <1>4, <2>2 DEF IInv, ReadsAsApplied, Parses, Parsed
  <2>3. QED
    BY <1>3, <2>1, <2>2
<1>8. \A q \in Puts : latest' = q => AloneOK(q)'
  <2>1. AloneOK(p) => memory = put[p].new
    BY <1>1 DEF AloneOK
  <2>2. CASE Moved(p, "write") /\ file' = <<>>
    BY <1>1, <1>2, <2>1, <2>2, AloneKept
  <2>3. CASE Moved(p, "failed") /\ file' = file
    BY <1>1, <1>2, <2>1, <2>3, AloneKept
  <2>4. QED
    BY <1>3, <2>2, <2>3
<1>9. torn' \in BOOLEAN
  BY <1>5 DEF TypeOK
<1>10. QED
  BY <1>1, <1>4, <1>5, <1>6, <1>7, <1>8, <1>9 DEF IInv

\* The text reaches the file, or a part of it does.
LEMMA WriteInv ==
    ASSUME IInv, NEW p \in Puts, Write(p) \/ WriteFails(p)
    PROVE  IInv' /\ memory' = memory /\ torn' \in BOOLEAN /\ EverApplied' = EverApplied
<1>1. PICK s : s = put[p].new
  OBVIOUS
<1>2. /\ TypeOK /\ up' = up /\ found' = found /\ latest' = latest
      /\ crashes' = crashes /\ put[p].at = "write" /\ memory' = memory
      /\ s \in Settings /\ file \in Seq(Bytes) /\ torn \in BOOLEAN
  BY <1>1 DEF IInv, Write, WriteFails, AfterError, At, TypeOK
<1>3. {"reply", "failed"} \subseteq Places /\ put[p].at \in Running
  BY <1>2 DEF Places, Running
<1>4. Text[s] \in Seq(Bytes) /\ Len(Text[s]) \in Nat /\ Len(file) \in Nat
  BY <1>2, TextFacts, LenProperties
<1>5. PICK n \in 0..Len(Text[s]) :
        /\ file' = Overwrite(file, SubSeq(Text[s], 1, n))
        /\ \/ Moved(p, "reply") /\ n = Len(Text[s]) /\ torn' = FALSE
           \/ /\ Moved(p, "failed") /\ n # Len(Text[s])
              /\ torn' = IF n = 0 THEN torn ELSE n < Len(file)
  <2>1. CASE Write(p)
    <3>1. Moved(p, "reply") /\ torn' = FALSE /\ file' = Overwrite(file, Text[s])
      BY <1>1, <1>2, <1>3, <2>1, GotoMoves DEF Write
    <3>2. Text[s] = SubSeq(Text[s], 1, Len(Text[s])) /\ Len(Text[s]) \in 0..Len(Text[s])
      BY <1>4, SubSeqFull
    <3>3. QED
      BY <3>1, <3>2
  <2>2. CASE WriteFails(p)
    <3>1. Moved(p, "failed")
      BY <1>2, <1>3, <2>2, GotoMoves DEF WriteFails
    <3>2. PICK n \in 0..(Len(Text[s]) - 1) :
            /\ file' = Overwrite(file, SubSeq(Text[s], 1, n))
            /\ torn' = IF n = 0 THEN torn ELSE n < Len(file)
      BY <1>1, <2>2 DEF WriteFails
    <3>3. n \in 0..Len(Text[s]) /\ n # Len(Text[s])
      BY <1>4
    <3>4. QED
      BY <3>1, <3>2, <3>3
  <2>3. QED
    BY <2>1, <2>2
<1>6. EverApplied' = EverApplied /\ s \in EverApplied
  BY <1>1, <1>2, <1>5, MovedEver DEF Counts, EverApplied
<1>7. /\ file' \in Seq(Bytes)
      /\ n = 0 => file' = file
      /\ n = Len(Text[s]) /\ Parses(file') => Parsed(file') = s
      /\ n # Len(Text[s]) /\ n >= Len(file) => ~Parses(file')
      /\ n = Len(Text[s]) /\ file = <<>> => file' = Text[s]
  BY <1>2, <1>5, WrittenReads
<1>8. TypeOK' /\ torn' \in BOOLEAN
  <2>1. torn' \in BOOLEAN
    <3>1. (n < Len(file)) \in BOOLEAN
      OBVIOUS
    <3>2. torn' = FALSE \/ torn' = torn \/ torn' = (n < Len(file))
      BY <1>5, Zenon
    <3>3. QED
      BY <1>2, <3>1, <3>2, Zenon
  <2>2. QED
    BY <1>2, <1>5, <1>7, <2>1 DEF TypeOK, Moved
<1>9. HandlersOK'
  BY <1>2, <1>3, <1>5, HandlersKept
<1>10. ReadsAsApplied'
  <2>1. SUFFICES ASSUME ~torn', Parses(file') PROVE Parsed(file') \in EverApplied
    BY <1>6 DEF ReadsAsApplied, Parses, Parsed
  <2>2. CASE n = Len(Text[s])
    BY <1>6, <1>7, <2>1, <2>2
  <2>3. CASE n # Len(Text[s]) /\ n # 0
    <3>1. torn' = (n < Len(file))
      BY <1>5, <2>3, Zenon
    <3>2. ~(n < Len(file))
      BY <2>1, <3>1, Zenon
    <3>3. n >= Len(file)
      BY <1>4, <3>2
    <3>4. QED
      BY <1>7, <2>1, <2>3, <3>3
  <2>4. CASE n # Len(Text[s]) /\ n = 0
    <3>1. file' = file /\ ~torn
      BY <1>5, <1>7, <2>1, <2>4
    <3>2. QED
      BY <2>1, <3>1 DEF IInv, ReadsAsApplied, Parses, Parsed
  <2>5. QED
    BY <2>2, <2>3, <2>4
<1>11. \A q \in Puts : latest' = q => AloneOK(q)'
  <2>1. AloneOK(p) => memory = s /\ file = <<>>
    BY <1>1, <1>2 DEF AloneOK, At
  <2>2. CASE Moved(p, "reply") /\ n = Len(Text[s])
    <3>1. AloneOK(p) => file' = Text[s]
      BY <1>7, <2>1, <2>2
    <3>2. QED
      BY <1>1, <1>2, <1>3, <2>1, <2>2, <3>1, AloneKept
  <2>3. CASE Moved(p, "failed")
    BY <1>1, <1>2, <1>3, <2>1, <2>3, AloneKept
  <2>4. QED
    BY <1>5, <2>2, <2>3
<1>12. QED
  BY <1>2, <1>6, <1>8, <1>9, <1>10, <1>11 DEF IInv

\* The reply changes nothing.
LEMMA ReplyInv ==
    ASSUME IInv, NEW p \in Puts, Reply(p)
    PROVE  IInv' /\ memory' = memory /\ torn' = torn /\ EverApplied' = EverApplied
<1>1. /\ TypeOK /\ up' = up /\ file' = file /\ found' = found /\ latest' = latest
      /\ crashes' = crashes /\ put[p].at = "reply" /\ memory' = memory /\ torn' = torn
  BY DEF IInv, Reply, At
<1>2. "ok" \in Places /\ put[p].at \in Running
  BY <1>1 DEF Places, Running
<1>3. Moved(p, "ok")
  BY <1>1, <1>2, GotoMoves DEF Reply
<1>4. EverApplied' = EverApplied
  BY <1>1, <1>3, MovedEver DEF Counts
<1>5. TypeOK'
  BY <1>1, <1>3 DEF TypeOK, Moved
<1>6. HandlersOK'
  BY <1>1, <1>2, <1>3, HandlersKept
<1>7. ReadsAsApplied'
  BY <1>1, <1>4 DEF IInv, ReadsAsApplied, Parses, Parsed
<1>8. \A q \in Puts : latest' = q => AloneOK(q)'
  <2>1. AloneOK(p) => memory = put[p].new /\ file = Text[put[p].new]
    BY <1>1 DEF AloneOK
  <2>2. QED
    BY <1>1, <1>2, <1>3, <2>1, AloneKept
<1>9. QED
  BY <1>1, <1>4, <1>5, <1>6, <1>7, <1>8 DEF IInv

\* The process dies, and takes the handlers with it.
LEMMA CrashInv ==
    ASSUME IInv, Crash
    PROVE  IInv' /\ memory' = memory /\ torn' = torn /\ EverApplied' = EverApplied
<1>1. /\ TypeOK /\ up' = FALSE /\ file' = file /\ found' = found /\ latest' = latest
      /\ memory' = memory /\ torn' = torn /\ crashes \in 0..MaxCrashes /\ crashes < MaxCrashes
      /\ crashes' = crashes + 1
  BY DEF IInv, Crash, TypeOK
<1>2. ASSUME NEW p \in Puts
      PROVE  /\ put'[p] \in [at : Places, new : Settings]
             /\ put'[p].new = put[p].new /\ put'[p].at = AfterCrash(put[p].at)
  <2>1. put'[p] = [put[p] EXCEPT !.at = AfterCrash(@)]
    BY DEF Crash
  <2>2. put[p] \in [at : Places, new : Settings]
    BY <1>1 DEF TypeOK
  <2>3. AfterCrash(put[p].at) \in Places
    BY <2>2 DEF AfterCrash, Places
  <2>4. QED
    BY <2>1, <2>2, <2>3
<1>3. \A place : /\ AfterCrash(place) \notin Running
                 /\ AfterCrash(place) \in {"idle", "rejected", "apply", "dropped"}
                      <=> place \in {"idle", "rejected", "apply", "dropped"}
                 /\ AfterCrash(place) = place
                      \/ AfterCrash(place) \in {"dropped", "lost"}
  BY DEF AfterCrash, Running
<1>4. EverApplied' = EverApplied
  <2>1. \A q \in Puts : Counts(q)' <=> Counts(q)
    BY <1>2, <1>3 DEF Counts
  <2>2. QED
    BY <1>1, <1>2, <2>1, SameEver
<1>5. TypeOK'
  <2>1. put' \in [Puts -> [at : Places, new : Settings]]
    BY <1>2 DEF Crash
  <2>2. crashes' \in 0..MaxCrashes
    BY <1>1, CrashAssumption
  <2>3. QED
    BY <1>1, <2>1, <2>2 DEF TypeOK
<1>6. HandlersOK'
  BY <1>2, <1>3 DEF HandlersOK
<1>7. ReadsAsApplied'
  BY <1>1, <1>4 DEF IInv, ReadsAsApplied, Parses, Parsed
<1>8. crashes' # 0
  BY <1>1
<1>9. ASSUME NEW q \in Puts, latest' = q
      PROVE  AloneOK(q)'
  <2>1. AloneOK(q)
    BY <1>1, <1>9 DEF IInv
  <2>2. /\ \A x \in Puts : put'[x].at \notin Running
        /\ put'[q].at = put[q].at \/ put'[q].at \in {"dropped", "lost"}
        /\ put'[q].new = put[q].new
    BY <1>2, <1>3
  <2>3. QED
    BY <1>1, <1>8, <2>1, <2>2 DEF AloneOK, At, Running
<1>10. QED
  BY <1>1, <1>4, <1>5, <1>6, <1>7, <1>8, <1>9 DEF IInv

\* It comes back with something that was applied before, or with whatever a torn
\* file reads as.
LEMMA RestartInv ==
    ASSUME IInv, Restart
    PROVE  /\ IInv' /\ memory' \in Settings /\ (~torn => memory' \in EverApplied)
           /\ torn' = torn /\ EverApplied' = EverApplied
<1>1. /\ TypeOK /\ ~up /\ up' = TRUE /\ file' = file /\ torn' = torn /\ found' = found
      /\ put' = put /\ latest' = latest /\ crashes' = crashes /\ memory' = Loaded
  BY DEF IInv, Restart
<1>2. Loaded \in Settings /\ (~torn => Loaded \in EverApplied)
  BY LoadedFacts DEF IInv
<1>3. EverApplied' = EverApplied
  BY <1>1 DEF EverApplied
<1>4. TypeOK'
  BY <1>1, <1>2 DEF TypeOK
<1>5. \A q \in Puts : put[q].at \notin Running
  BY <1>1 DEF IInv, HandlersOK
<1>6. HandlersOK'
  BY <1>1, <1>5 DEF HandlersOK
<1>7. ReadsAsApplied'
  BY <1>1, <1>3 DEF IInv, ReadsAsApplied, Parses, Parsed
<1>8. crashes' # 0
  BY <1>1 DEF IInv
<1>9. ASSUME NEW q \in Puts, latest' = q
      PROVE  AloneOK(q)'
  <2>1. AloneOK(q) /\ put[q].new \in Settings
    BY <1>1, <1>9 DEF IInv, TypeOK
  <2>2. put[q].at = "ok" => memory' = put[q].new
    <3>1. SUFFICES ASSUME put[q].at = "ok" PROVE Loaded = put[q].new
      BY <1>1
    <3>2. file = Text[put[q].new]
      BY <2>1, <3>1 DEF AloneOK
    <3>3. QED
      BY <2>1, <3>2, TextFacts DEF Loaded
  <2>3. QED
    BY <1>1, <1>5, <1>8, <2>1, <2>2 DEF AloneOK, At, Running
<1>10. QED
  BY <1>1, <1>2, <1>3, <1>4, <1>6, <1>7, <1>8, <1>9 DEF IInv

\* The first start.
LEMMA InitIInv == Init => IInv /\ Register!Init
<1> SUFFICES ASSUME Init PROVE IInv /\ Register!Init
  OBVIOUS
<1>1. /\ up = TRUE /\ memory = Loaded /\ found = memory /\ latest = NoPut /\ crashes = 0
      /\ torn = FALSE /\ put = [p \in Puts |-> [at |-> "idle", new |-> Default]]
  BY DEF Init
<1>2. file \in Seq(Bytes) /\ Loaded \in Settings /\ (Parses(file) => Parsed(file) = Loaded)
  <2>1. CASE file = <<>>
    BY <2>1, EmptySeq, EmptyReads, SettingsAssumption DEF Loaded
  <2>2. CASE \E s \in Settings : file \in Layouts[s]
    BY <2>2, TextFacts DEF Loaded
  <2>3. QED
    BY <2>1, <2>2 DEF Init
<1>3. found \in EverApplied
  BY DEF EverApplied
<1>4. TypeOK
  <2>1. 0 \in 0..MaxCrashes
    BY CrashAssumption
  <2>2. put \in [Puts -> [at : Places, new : Settings]]
    BY <1>1, SettingsAssumption DEF Places
  <2>3. torn \in BOOLEAN /\ up \in BOOLEAN
    BY <1>1
  <2>4. QED
    BY <1>1, <1>2, <2>1, <2>2, <2>3 DEF TypeOK
<1>5. HandlersOK
  BY <1>1 DEF HandlersOK, Running
<1>6. ReadsAsApplied
  BY <1>1, <1>2, <1>3 DEF ReadsAsApplied
<1>7. EverApplied \subseteq Settings
  BY <1>4, SettingsAssumption DEF TypeOK, EverApplied
<1>8. QED
  BY <1>1, <1>3, <1>4, <1>5, <1>6, <1>7, PutsAssumption DEF IInv, Register!Init

\* Every step preserves the invariant and is a step of the register, or leaves
\* it alone.
LEMMA NextIInv ==
    ASSUME IInv, [Next]_vars
    PROVE  IInv' /\ [Register!Next]_(Register!vars)
<1>1. ASSUME memory' = memory, EverApplied' = EverApplied, torn' \in BOOLEAN
      PROVE  [Register!Next]_(Register!vars)
  BY <1>1 DEF Register!Next, Register!Persist
<1>2. CASE Crash
  <2>1. memory' = memory /\ EverApplied' = EverApplied /\ torn' \in BOOLEAN
    BY <1>2, CrashInv DEF IInv, TypeOK
  <2>2. QED
    BY <1>1, <1>2, <2>1, CrashInv
<1>3. CASE Restart
  BY <1>3, RestartInv DEF Register!Next, Register!Recover
<1>4. ASSUME NEW p \in Puts, Handle(p)
      PROVE  IInv' /\ [Register!Next]_(Register!vars)
  <2>1. CASE Receive(p)
    <3>1. memory' = memory /\ EverApplied' = EverApplied /\ torn' \in BOOLEAN
      BY <2>1, ReceiveInv DEF IInv, TypeOK
    <3>2. QED
      BY <1>1, <2>1, <3>1, ReceiveInv
  <2>2. CASE Apply(p)
    <3>1. put[p].new \in Settings
      BY DEF IInv, TypeOK
    <3>2. QED
      BY <2>2, <3>1, ApplyInv DEF Register!Next, Register!Put
  <2>3. CASE Open(p) \/ OpenFails(p)
    BY <1>1, <2>3, OpenInv
  <2>4. CASE Write(p) \/ WriteFails(p)
    BY <1>1, <2>4, WriteInv
  <2>5. CASE Reply(p)
    <3>1. memory' = memory /\ EverApplied' = EverApplied /\ torn' \in BOOLEAN
      BY <2>5, ReplyInv DEF IInv, TypeOK
    <3>2. QED
      BY <1>1, <2>5, <3>1, ReplyInv
  <2>6. QED
    BY <1>4, <2>1, <2>2, <2>3, <2>4, <2>5 DEF Handle
<1>5. CASE UNCHANGED vars
  <2>1. /\ up' = up /\ memory' = memory /\ file' = file /\ torn' = torn /\ found' = found
        /\ put' = put /\ latest' = latest /\ crashes' = crashes
    BY <1>5 DEF vars
  <2>2. EverApplied' = EverApplied
    BY <2>1 DEF EverApplied
  <2>3. \A q \in Puts : AloneOK(q)' <=> AloneOK(q)
    BY <2>1 DEF AloneOK, At
  <2>4. IInv'
    BY <2>1, <2>2, <2>3 DEF IInv, TypeOK, HandlersOK, ReadsAsApplied, Parses, Parsed
  <2>5. torn' \in BOOLEAN
    BY <2>1 DEF IInv, TypeOK
  <2>6. QED
    BY <1>1, <2>1, <2>2, <2>4, <2>5
<1>6. QED
  BY <1>2, <1>3, <1>4, <1>5 DEF Next

\* The inductive invariant holds in every reachable state.
THEOREM StateInvariant == Spec => []IInv
BY InitIInv, NextIInv, PTL DEF Spec

\* Every variable keeps the shape of the code's data.
THEOREM StateTyped == Spec => []TypeOK
<1>1. IInv => TypeOK
  BY DEF IInv
<1>2. QED
  BY <1>1, StateInvariant, PTL

\* src/chat_settings.rs: the settings are one register, set at once by an
\* accepted PUT, and brought back by a restart to something that was in force
\* before, whatever writers, write errors and crashes did to the file, unless a
\* write failed over what another writer had written: then, and until the file is
\* opened or written whole again, to whatever choice the mixture reads as.
THEOREM ImplementsRegister == Spec => RegisterSpec
BY InitIInv, NextIInv, StateInvariant, PTL DEF Spec, RegisterSpec, Register!Spec

\* A PUT that ran alone and was answered 200, with none after it, is on disk and
\* in force, before and after any crash.
THEOREM LoneSurvives == Spec => []LonePutSurvives
<1>1. IInv => LonePutSurvives
  BY DEF IInv, LonePutSurvives, AloneOK, At
<1>2. QED
  BY <1>1, StateInvariant, PTL

\* A PUT that ran alone and was answered 500 is in force as long as the process
\* lives.
THEOREM FailedApplied == Spec => []FailedPutIsApplied
<1>1. IInv => FailedPutIsApplied
  BY DEF IInv, FailedPutIsApplied, AloneOK, At
<1>2. QED
  BY <1>1, StateInvariant, PTL

-----------------------------------------------------------------------------
\* The page in front of the settings.

\* What the page does to the settings is what their module says.
LEMMA PanelStepsChat ==
    ASSUME [PanelNext]_panelVars
    PROVE  [Next]_vars
<1>1. CASE Fault
  BY <1>1 DEF Fault, Next
<1>2. ASSUME NEW p \in Puts, Arrives(p) \/ Handled(p)
      PROVE  Next
  BY <1>2 DEF Arrives, Handled, Handle, Next
<1>3. ASSUME NEW p \in PanelPuts, Save(p) \/ Saved(p) \/ SaveFails(p)
      PROVE  UNCHANGED vars
  BY <1>3 DEF Save, Saved, SaveFails
<1>4. ASSUME NEW x \in Exchanges, OpenPage(x) \/ LoadServed(x) \/ Loads(x) \/ LoadFails(x)
      PROVE  UNCHANGED vars
  BY <1>4 DEF OpenPage, LoadServed, Loads, LoadFails
<1>5. ASSUME NEW m \in wire, LostOnTheWay(m)
      PROVE  UNCHANGED vars
  BY <1>5 DEF LostOnTheWay
<1>6. CASE UNCHANGED panelVars
  BY <1>6 DEF panelVars
<1>7. QED
  BY <1>1, <1>2, <1>3, <1>4, <1>5, <1>6 DEF PanelNext

\* src/panel.html and src/chat_proxy.rs: the page is one more client of the
\* settings; nothing it does takes them where other clients cannot.
THEOREM PanelIsAClient == PanelSpec => Spec
<1>1. PanelInit => Init
  BY DEF PanelInit
<1>2. QED
  BY <1>1, PanelStepsChat, PTL DEF PanelSpec, Spec

\* With the page in front, its saves given up and arriving late included, the
\* settings are still one register, and a torn file the only exception.
THEOREM PanelImplementsRegister == PanelSpec => RegisterSpec
BY PanelIsAClient, ImplementsRegister, PTL

-----------------------------------------------------------------------------
\* What the page shows and has on its way.

Card == [pipeline : BOOLEAN, target : Offered, locked : BOOLEAN, visible : BOOLEAN]
ExchangeState == [at : Stages, data : Settings, fresh : BOOLEAN]

\* Card c shows s, as the page's own card does.
CardShows(c, s) ==
    /\ c.pipeline = s.pipeline /\ c.locked = ~s.pipeline
    /\ c.target = IF s.target \in Offered THEN s.target ELSE "cascade"

\* A setting is its two controls.
LEMMA SettingShape ==
    /\ \A s \in Settings : s \in [pipeline : BOOLEAN, target : Targets]
    /\ "cascade" \in Offered
BY PanelAssumption

\* A card that renders a setting shows it.
LEMMA RenderedFacts ==
    ASSUME card \in Card, NEW s \in Settings
    PROVE  /\ Rendered(s) \in Card /\ CardShows(Rendered(s), s)
           /\ [Rendered(s) EXCEPT !.visible = TRUE] \in Card
           /\ CardShows([Rendered(s) EXCEPT !.visible = TRUE], s)
<1>1. PICK t : t = IF s.target \in Offered THEN s.target ELSE "cascade"
  OBVIOUS
<1>2. PICK l : l = ~s.pipeline
  OBVIOUS
<1>3. t \in Offered /\ s.pipeline \in BOOLEAN /\ l \in BOOLEAN
  BY <1>1, <1>2, SettingShape
<1>4. PICK c : c = [card EXCEPT !.pipeline = s.pipeline, !.target = t, !.locked = l]
  OBVIOUS
<1>5. Rendered(s) = c
  BY <1>1, <1>2, <1>4 DEF Rendered
<1>6. c \in Card /\ c.pipeline = s.pipeline /\ c.target = t /\ c.locked = l
  BY <1>3, <1>4 DEF Card
<1>7. PICK v : v = [c EXCEPT !.visible = TRUE]
  OBVIOUS
<1>8. v \in Card /\ v.pipeline = s.pipeline /\ v.target = t /\ v.locked = l
  BY <1>6, <1>7 DEF Card
<1>9. QED
  BY <1>1, <1>2, <1>5, <1>6, <1>7, <1>8, Zenon DEF CardShows

\* What an exchange that moves leaves of the others.
LEMMA MoveFacts ==
    ASSUME exchange \in [Exchanges -> ExchangeState], NEW x \in Exchanges,
           NEW stage \in Stages, NEW data \in Settings, NEW fresh \in BOOLEAN,
           exchange' = [exchange EXCEPT ![x] = [at |-> stage, data |-> data, fresh |-> fresh]]
    PROVE  /\ exchange' \in [Exchanges -> ExchangeState]
           /\ exchange'[x].at = stage /\ exchange'[x].data = data /\ exchange'[x].fresh = fresh
           /\ \A y \in Exchanges \ {x} : exchange'[y] = exchange[y]
<1>1. PICK e : e = [at |-> stage, data |-> data, fresh |-> fresh]
  OBVIOUS
<1>2. e \in ExchangeState /\ e.at = stage /\ e.data = data /\ e.fresh = fresh
  BY <1>1 DEF ExchangeState
<1>3. exchange' = [exchange EXCEPT ![x] = e]
  BY <1>1
<1>4. QED
  BY <1>2, <1>3

LEMMA BecomesFacts ==
    ASSUME exchange \in [Exchanges -> ExchangeState], NEW x \in Exchanges,
           NEW stage \in Stages, Becomes(x, stage)
    PROVE  /\ exchange' \in [Exchanges -> ExchangeState]
           /\ exchange'[x].at = stage /\ exchange'[x].fresh = FALSE
           /\ \A y \in Exchanges \ {x} : exchange'[y] = exchange[y]
<1>1. Default \in Settings
  BY SettingsAssumption
<1>2. QED
  BY <1>1, MoveFacts DEF Becomes

\* An answer from the proxy says what is in force.
LEMMA RepliedFacts ==
    ASSUME exchange \in [Exchanges -> ExchangeState], memory \in Settings, NEW x \in Exchanges,
           NEW stage \in Stages, Replied(x, stage)
    PROVE  /\ exchange' \in [Exchanges -> ExchangeState]
           /\ exchange'[x].at = stage /\ exchange'[x].data = memory
           /\ \A y \in Exchanges \ {x} : exchange'[y] = exchange[y]
BY MoveFacts DEF Replied

\* Settings that change overtake every answer, and move no exchange.
LEMMA OvertakenFacts ==
    ASSUME exchange \in [Exchanges -> ExchangeState], Overtaken
    PROVE  /\ exchange' \in [Exchanges -> ExchangeState]
           /\ \A x \in Exchanges :
                /\ exchange'[x].at = exchange[x].at /\ exchange'[x].data = exchange[x].data
                /\ exchange'[x].fresh => exchange[x].fresh /\ memory' = memory
<1>1. ASSUME NEW x \in Exchanges
      PROVE  /\ exchange'[x] \in ExchangeState
             /\ exchange'[x].at = exchange[x].at /\ exchange'[x].data = exchange[x].data
             /\ exchange'[x].fresh => exchange[x].fresh /\ memory' = memory
  <2>1. PICK f : f = (exchange[x].fresh /\ memory' = memory)
    OBVIOUS
  <2>2. f \in BOOLEAN
    BY <2>1
  <2>3. exchange'[x] = [exchange[x] EXCEPT !.fresh = f]
    BY <2>1 DEF Overtaken
  <2>4. exchange[x] \in ExchangeState
    OBVIOUS
  <2>5. /\ exchange'[x] \in ExchangeState /\ exchange'[x].fresh = f
        /\ exchange'[x].at = exchange[x].at /\ exchange'[x].data = exchange[x].data
    BY <2>2, <2>3, <2>4 DEF ExchangeState
  <2>6. QED
    BY <2>1, <2>5, Zenon
<1>2. exchange' = [x \in Exchanges |-> exchange'[x]]
  BY DEF Overtaken
<1>3. QED
  BY <1>1, <1>2

-----------------------------------------------------------------------------
\* The steps of the page.

\* The last conjunct of PanelIInv: an idle page shows what is in force.
IdleTruth == (\A x \in Exchanges : Ended(x)) /\ card.visible /\ ~stale => Shows(memory)

\* What the invariant says of the page's own variables.
LEMMA PageFacts ==
    ASSUME PanelIInv
    PROVE  /\ IInv /\ TypeOK /\ FreshIsTrue /\ IdleTruth /\ memory \in Settings
           /\ card \in Card /\ exchange \in [Exchanges -> ExchangeState]
           /\ wire \subseteq [put : PanelPuts, body : Settings] /\ stale \in BOOLEAN
           /\ PanelPuts \subseteq Exchanges /\ Opening \in Exchanges
BY DEF PanelIInv, IInv, TypeOK, PanelTypeOK, Card, ExchangeState, IdleTruth, Exchanges

\* What is left to show of a step.
LEMMA PageStep ==
    ASSUME IInv, [Next]_vars,
           card' \in Card, exchange' \in [Exchanges -> ExchangeState],
           wire' \subseteq [put : PanelPuts, body : Settings], stale' \in BOOLEAN,
           FreshIsTrue', IdleTruth'
    PROVE  PanelIInv'
<1>1. IInv'
  BY NextIInv
<1>2. PanelTypeOK'
  BY <1>1 DEF IInv, PanelTypeOK, Card, ExchangeState
<1>3. QED
  BY <1>1, <1>2 DEF PanelIInv, IdleTruth

\* An exchange that begins, or goes on without an answer: it has not ended, and
\* the card is not held to anything.
LEMMA UnderWay ==
    ASSUME PanelIInv, UNCHANGED vars, NEW x \in Exchanges, NEW stage \in {"saving", "loading"},
           Becomes(x, stage),
           card' \in Card, wire' \subseteq [put : PanelPuts, body : Settings], stale' = stale
    PROVE  PanelIInv'
<1>1. memory' = memory /\ stage \in Stages
  BY DEF vars, Stages
<1>2. /\ exchange' \in [Exchanges -> ExchangeState]
      /\ exchange'[x].at = stage /\ exchange'[x].fresh = FALSE
      /\ \A y \in Exchanges \ {x} : exchange'[y] = exchange[y]
  BY <1>1, PageFacts, BecomesFacts
<1>3. FreshIsTrue'
  BY <1>1, <1>2, PageFacts DEF FreshIsTrue
<1>4. IdleTruth'
  BY <1>2 DEF IdleTruth, Ended
<1>5. QED
  BY <1>2, <1>3, <1>4, PageFacts, PageStep

LEMMA BeginInv ==
    ASSUME PanelIInv,
           OpenPage(Opening) \/ \E p \in PanelPuts : Save(p) \/ SaveFails(p)
    PROVE  PanelIInv'
<1>1. CASE OpenPage(Opening)
  BY <1>1, PageFacts, UnderWay DEF OpenPage
<1>2. ASSUME NEW p \in PanelPuts, SaveFails(p)
      PROVE  PanelIInv'
  BY <1>2, PageFacts, UnderWay DEF SaveFails
<1>3. ASSUME NEW p \in PanelPuts, Save(p)
      PROVE  PanelIInv'
  <2>1. PICK s \in Settings :
          /\ \/ s = [Shown EXCEPT !.pipeline = ~@]
             \/ ~card.locked /\ s.target \in Offered \ {card.target}
                /\ s.pipeline = card.pipeline
          /\ card' = [card EXCEPT !.pipeline = s.pipeline, !.target = s.target]
          /\ wire' = wire \cup {[put |-> p, body |-> s]}
    BY <1>3 DEF Save
  <2>2. s.target \in Offered /\ s.pipeline \in BOOLEAN
    BY <2>1, PageFacts, SettingShape DEF Shown, Card
  <2>3. card' \in Card
    BY <2>1, <2>2, PageFacts DEF Card
  <2>4. wire' \subseteq [put : PanelPuts, body : Settings]
    BY <2>1, PageFacts
  <2>5. UNCHANGED vars /\ Becomes(p, "saving") /\ stale' = stale /\ p \in Exchanges
    BY <1>3, PageFacts DEF Save
  <2>6. QED
    BY <2>3, <2>4, <2>5, UnderWay
<1>4. QED
  BY <1>1, <1>2, <1>3

\* A card that was rendered from an answer shows what is in force, unless that
\* has changed since the answer was written.
LEMMA RendersInv ==
    ASSUME PanelIInv, UNCHANGED <<vars, wire>>, NEW x \in Exchanges, Becomes(x, "done"),
           card' \in Card, CardShows(card', exchange[x].data), stale' = ~exchange[x].fresh
    PROVE  PanelIInv'
<1>1. memory' = memory /\ "done" \in Stages /\ exchange[x].fresh \in BOOLEAN
  BY PageFacts DEF vars, Stages, ExchangeState
<1>2. /\ exchange' \in [Exchanges -> ExchangeState]
      /\ exchange'[x].at = "done" /\ exchange'[x].fresh = FALSE
      /\ \A y \in Exchanges \ {x} : exchange'[y] = exchange[y]
  BY <1>1, PageFacts, BecomesFacts
<1>3. FreshIsTrue'
  BY <1>1, <1>2, PageFacts DEF FreshIsTrue
<1>4. IdleTruth'
  <2>1. SUFFICES ASSUME ~stale' PROVE Shows(memory)'
    BY DEF IdleTruth
  <2>2. exchange[x].fresh
    BY <1>1, <2>1
  <2>3. exchange[x].data = memory'
    BY <1>1, <2>2, PageFacts DEF FreshIsTrue
  <2>4. QED
    BY <2>3 DEF CardShows, Shows
<1>5. stale' \in BOOLEAN
  BY <1>1
<1>6. QED
  BY <1>2, <1>3, <1>4, <1>5, PageFacts, PageStep

\* The answer to a save or to a load reaches the page, or none does.
LEMMA AnswerInv ==
    ASSUME PanelIInv,
           \/ \E p \in PanelPuts : Saved(p)
           \/ \E x \in Exchanges : Loads(x) \/ LoadFails(x)
    PROVE  PanelIInv'
<1>1. ASSUME NEW x \in Exchanges PROVE exchange[x].data \in Settings
  BY PageFacts DEF ExchangeState
<1>2. ASSUME NEW p \in PanelPuts, Saved(p)
      PROVE  PanelIInv'
  <2>1. /\ p \in Exchanges /\ UNCHANGED <<vars, wire>> /\ Becomes(p, "done")
        /\ stale' = ~exchange[p].fresh /\ card' = Rendered(exchange[p].data)
    BY <1>2, PageFacts DEF Saved
  <2>2. card' \in Card /\ CardShows(card', exchange[p].data)
    BY <1>1, <2>1, PageFacts, RenderedFacts
  <2>3. QED
    BY <2>1, <2>2, RendersInv
<1>3. ASSUME NEW x \in Exchanges, Loads(x)
      PROVE  PanelIInv'
  <2>1. /\ UNCHANGED <<vars, wire>> /\ Becomes(x, "done") /\ stale' = ~exchange[x].fresh
        /\ card' = [Rendered(exchange[x].data) EXCEPT !.visible = TRUE]
    BY <1>3 DEF Loads
  <2>2. card' \in Card /\ CardShows(card', exchange[x].data)
    BY <1>1, <2>1, PageFacts, RenderedFacts
  <2>3. QED
    BY <2>1, <2>2, RendersInv
<1>4. ASSUME NEW x \in Exchanges, LoadFails(x)
      PROVE  PanelIInv'
  <2>1. /\ UNCHANGED <<vars, wire, stale>> /\ Becomes(x, "done")
        /\ card' = [card EXCEPT !.visible = FALSE] /\ memory' = memory /\ "done" \in Stages
    BY <1>4 DEF LoadFails, vars, Stages
  <2>2. card' \in Card /\ ~card'.visible
    BY <2>1, PageFacts DEF Card
  <2>3. /\ exchange' \in [Exchanges -> ExchangeState] /\ exchange'[x].fresh = FALSE
        /\ \A y \in Exchanges \ {x} : exchange'[y] = exchange[y]
    BY <2>1, PageFacts, BecomesFacts
  <2>4. FreshIsTrue' /\ IdleTruth'
    BY <2>1, <2>2, <2>3, PageFacts DEF FreshIsTrue, IdleTruth
  <2>5. QED
    BY <2>1, <2>2, <2>3, <2>4, PageFacts, PageStep
<1>5. QED
  BY <1>2, <1>3, <1>4

\* get_settings answers a load.
LEMMA ServedInv ==
    ASSUME PanelIInv, NEW x \in Exchanges, LoadServed(x)
    PROVE  PanelIInv'
<1>1. /\ UNCHANGED <<vars, card, wire, stale>> /\ Replied(x, "loaded")
      /\ memory' = memory /\ "loaded" \in Stages
  BY DEF LoadServed, vars, Stages
<1>2. /\ exchange' \in [Exchanges -> ExchangeState]
      /\ exchange'[x].at = "loaded" /\ exchange'[x].data = memory
      /\ \A y \in Exchanges \ {x} : exchange'[y] = exchange[y]
  BY <1>1, PageFacts, RepliedFacts
<1>3. FreshIsTrue'
  BY <1>1, <1>2, PageFacts DEF FreshIsTrue
<1>4. IdleTruth'
  BY <1>2 DEF IdleTruth, Ended
<1>5. QED
  BY <1>1, <1>2, <1>3, <1>4, PageFacts, PageStep

-----------------------------------------------------------------------------
\* The steps of the settings, as the page sees them.

\* A PUT comes in, or never does: the page hears nothing of it.
LEMMA ArrivesInv ==
    ASSUME PanelIInv, (\E p \in Puts : Arrives(p)) \/ \E m \in wire : LostOnTheWay(m)
    PROVE  PanelIInv'
<1>1. /\ UNCHANGED <<card, exchange, stale>> /\ memory' = memory /\ wire' \subseteq wire
  BY DEF Arrives, LostOnTheWay, Receive, vars
<1>2. [Next]_vars
  BY DEF Arrives, LostOnTheWay, Handle, Next
<1>3. FreshIsTrue' /\ IdleTruth'
  BY <1>1, PageFacts DEF FreshIsTrue, IdleTruth, Ended, Shows
<1>4. QED
  BY <1>1, <1>2, <1>3, PageFacts, PageStep

\* What a change of the settings leaves of a page that does not hear of it.
LEMMA ChangeInv ==
    ASSUME PanelIInv, [Next]_vars, Overtaken, stale' = (stale \/ memory' # memory),
           UNCHANGED <<card, wire>>
    PROVE  PanelIInv'
<1>1. /\ exchange' \in [Exchanges -> ExchangeState]
      /\ \A x \in Exchanges :
           /\ exchange'[x].at = exchange[x].at /\ exchange'[x].data = exchange[x].data
           /\ exchange'[x].fresh => exchange[x].fresh /\ memory' = memory
  BY PageFacts, OvertakenFacts
<1>2. FreshIsTrue'
  BY <1>1, PageFacts DEF FreshIsTrue
<1>3. IdleTruth'
  <2>1. SUFFICES ASSUME \A x \in Exchanges : Ended(x)', card'.visible, ~stale'
                 PROVE  Shows(memory)'
    BY DEF IdleTruth
  <2>2. ~stale /\ memory' = memory /\ card' = card
    BY <2>1
  <2>3. \A x \in Exchanges : Ended(x)
    BY <1>1, <2>1 DEF Ended
  <2>4. Shows(memory)
    BY <2>1, <2>2, <2>3, PageFacts DEF IdleTruth
  <2>5. QED
    BY <2>2, <2>4 DEF Shows
<1>4. stale' \in BOOLEAN
  OBVIOUS
<1>5. QED
  BY <1>1, <1>2, <1>3, <1>4, PageFacts, PageStep

\* A handler goes on, and answers the page if it still waits.
LEMMA HandledInv ==
    ASSUME PanelIInv, NEW p \in Puts, Handled(p)
    PROVE  PanelIInv'
<1>1. [Next]_vars /\ UNCHANGED <<card, wire>> /\ stale' = (stale \/ memory' # memory)
  BY DEF Handled, Next
<1>2. CASE Overtaken
  BY <1>1, <1>2, ChangeInv
<1>3. CASE p \in PanelPuts /\ AtStage(p, "saving") /\ At(p, "reply") /\ RepliedAsRead(p)
  <2>1. memory' = memory
    BY <1>3 DEF Handled, Handle, Receive, Apply, Open, OpenFails, Write, WriteFails, Reply, At
  <2>2. p \in Exchanges /\ Replied(p, "saving") /\ "saving" \in Stages
    BY <1>3, PageFacts DEF RepliedAsRead, Stages
  <2>3. /\ exchange' \in [Exchanges -> ExchangeState]
        /\ exchange'[p].at = "saving" /\ exchange'[p].data = memory
        /\ \A y \in Exchanges \ {p} : exchange'[y] = exchange[y]
    BY <2>2, PageFacts, RepliedFacts
  <2>4. FreshIsTrue'
    BY <2>1, <2>3, PageFacts DEF FreshIsTrue
  <2>5. IdleTruth'
    BY <2>2, <2>3 DEF IdleTruth, Ended
  <2>6. stale' \in BOOLEAN
    BY <1>1
  <2>7. QED
    BY <1>1, <2>3, <2>4, <2>5, <2>6, PageFacts, PageStep
<1>4. QED
  BY <1>2, <1>3 DEF Handled

\* A crash and a restart overtake whatever is on its way to the page.
LEMMA FaultInv ==
    ASSUME PanelIInv, Fault
    PROVE  PanelIInv'
<1>1. [Next]_vars
  BY DEF Fault, Next
<1>2. QED
  BY <1>1, ChangeInv DEF Fault

-----------------------------------------------------------------------------
\* The page and the settings together.

LEMMA PanelInitIInv ==
    ASSUME PanelInit
    PROVE  PanelIInv
<1>1. Init /\ IInv /\ TypeOK
  BY InitIInv DEF PanelInit, IInv
<1>2. Default \in Settings /\ "cascade" \in Offered
  BY SettingsAssumption, PanelAssumption
<1>3. PanelTypeOK
  BY <1>1, <1>2 DEF PanelInit, PanelTypeOK, Stages
<1>4. FreshIsTrue
  BY DEF PanelInit, FreshIsTrue
<1>5. ~card.visible
  BY DEF PanelInit
<1>6. QED
  BY <1>1, <1>3, <1>4, <1>5 DEF PanelIInv

LEMMA PanelNextIInv ==
    ASSUME PanelIInv, [PanelNext]_panelVars
    PROVE  PanelIInv'
<1>1. CASE Fault
  BY <1>1, FaultInv
<1>2. ASSUME NEW p \in Puts, Arrives(p) \/ Handled(p)
      PROVE  PanelIInv'
  BY <1>2, ArrivesInv, HandledInv
<1>3. ASSUME NEW m \in wire, LostOnTheWay(m)
      PROVE  PanelIInv'
  BY <1>3, ArrivesInv
<1>4. ASSUME NEW p \in PanelPuts, Save(p) \/ Saved(p) \/ SaveFails(p)
      PROVE  PanelIInv'
  BY <1>4, BeginInv, AnswerInv
<1>5. ASSUME NEW x \in Exchanges, OpenPage(x) \/ LoadServed(x) \/ Loads(x) \/ LoadFails(x)
      PROVE  PanelIInv'
  <2>1. OpenPage(x) => x = Opening
    BY DEF OpenPage
  <2>2. QED
    BY <1>5, <2>1, BeginInv, ServedInv, AnswerInv
<1>6. CASE UNCHANGED panelVars
  <2>1. UNCHANGED <<vars, card, exchange, wire, stale>> /\ memory' = memory
    BY <1>6 DEF panelVars, vars
  <2>2. FreshIsTrue' /\ IdleTruth'
    BY <2>1, PageFacts DEF FreshIsTrue, IdleTruth, Ended, Shows
  <2>3. QED
    BY <2>1, <2>2, PageFacts, PageStep
<1>7. QED
  BY <1>1, <1>2, <1>3, <1>4, <1>5, <1>6 DEF PanelNext

\* src/panel.html and get_settings: a reply on its way that no change of the
\* settings has overtaken says what is in force, and so does a card at rest that
\* was rendered from one, however many saves, loads and other clients there are.
THEOREM PanelInvariant == PanelSpec => []PanelIInv
BY PanelInitIInv, PanelNextIInv, PTL DEF PanelSpec

\* The card never shows a target that the dropdown does not offer, and what is
\* on its way to the page is always a setting.
THEOREM PanelTyped == PanelSpec => []PanelTypeOK
<1>1. PanelIInv => PanelTypeOK
  BY DEF PanelIInv
<1>2. QED
  BY <1>1, PanelInvariant, PTL

\* src/panel.html: saveChatSettings and loadChatSettings leave a card that shows
\* the settings in force, in whatever order its fetches were served, answered,
\* failed or lost, unless the settings have changed since the reply that it was
\* rendered from was written.
THEOREM PanelTruthful == PanelSpec => []PanelTellsTheTruth
<1>1. PanelIInv => PanelTellsTheTruth
  BY DEF PanelIInv, PanelTellsTheTruth
<1>2. QED
  BY <1>1, PanelInvariant, PTL

\* What put_settings answers to a PUT that ran alone is true of the page's PUTs
\* too: a 200 is on disk, a 500 is in force.
THEOREM PanelLoneSurvives == PanelSpec => [](LonePutSurvives /\ FailedPutIsApplied)
BY PanelIsAClient, LoneSurvives, FailedApplied, PTL
=============================================================================
