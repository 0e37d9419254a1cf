--------------------------- MODULE PipelineProofs ---------------------------
(***************************************************************************)
(* What SendPipeline promises of every conversation, whatever is typed and *)
(* however the stream is cut: the engines see whole lines, a connection is *)
(* classified once and for all, a text that is meant to be sealed does not *)
(* leave in clear, and what was sealed is read by whoever has its key; and *)
(* what RecvPipeline promises of the buffer of received data.              *)
(*                                                                         *)
(* The four ways of sealing (a script's command for each of the two kinds  *)
(* of key, the engine for a message and for a topic) leave a line that is  *)
(* WellSealed; what opens a line is compared with that alone.  The buffer  *)
(* of the lines to send, a second invariant, holds the line that is being  *)
(* sent as far as it went, and nothing of a line that the engines saw.     *)
(***************************************************************************)
EXTENDS SendPipeline, RecvPipeline, WellFoundedInduction, TLAPS

-----------------------------------------------------------------------------
(* Lines and sequences of them.                                             *)

IsLine(line) ==
    /\ line = [cmd |-> line.cmd, to |-> line.to, action |-> line.action,
               meant |-> line.meant, body |-> line.body]
    /\ line.to \in Targets

\* The key of a sealed line is a key, and mark and associated data go with the
\* target.  A message to a channel is bound to its name as it was written, unless the
\* sender has no key for the channel.
WellSealed(own, line) ==
    LET body == line.body
    IN  body.mark # "clear" =>
            /\ body.key # NoKey
            /\ \/ body.mark \in {"+OK", "+OKtopic"}
               \/ /\ body.mark = "+FiSH" /\ line.to.channel
                  /\ body.ad = AsWritten(line.to) \/ own.channel = NoKey
               \/ body.mark = "+FiSH" /\ ~line.to.channel /\ body.ad = NoAD
               \/ /\ body.mark = "+FCEP_TOPIC+" /\ line.cmd = "TOPIC" /\ ~line.action
                  /\ body.ad = AsWritten(line.to)

\* What was meant to be sealed is sealed, or is the text of the error.
NotPlain(line) ==
    line.meant => line.body.mark # "clear" \/ line.body.text = ErrorText

\* s is a sequence.
IsSequence(s) == s \in Seq(ToSet(s))

-----------------------------------------------------------------------------
(* The inductive invariant.                                                 *)

\* A line is put out before it is sent and sent before it is shown.
InOrder ==
    /\ conv \in Conversations
    /\ IsSequence(lines) /\ IsSequence(shown)
    /\ sent \in Nat /\ sent <= Tokens /\ 4 * Len(shown) <= sent

\* The sender's keys, but for the key store's entry, which an expiry deletes.
OwnKeys ==
    keys = [store |-> keys.store, channel |-> conv.own.channel, legacy |-> conv.own.legacy]

\* What was put out, what the engine made of it, and what was shown of it.
LinesMade ==
    \A i \in DOMAIN lines :
        IsLine(lines[i]) /\ WellSealed(conv.own, lines[i]) /\ NotPlain(lines[i])

EngineSealsWell ==
    conv.prefix = "+FiSH" => \A line \in made : IsLine(line) /\ WellSealed(conv.own, line)

ShownIsOpened ==
    \A i \in DOMAIN shown : shown[i] = Shown(conv.peer, conv.reader, lines[i])

PipelineInv ==
    InOrder /\ OwnKeys /\ LinesMade /\ EngineSealsWell /\ ShownIsOpened /\ ClassifiedOnce

-----------------------------------------------------------------------------
(* The inductive invariant of the line buffer.                              *)

\* None of these tokens went out in a chunk that is not UTF-8 or not sent whole.
Clean(first, last) == \A t \in first .. last : t \notin bad

\* The buffer with the next n tokens behind it.
Buffer(n) == outgoing \o [j \in 1 .. n |-> sent + j]

BufferTyped ==
    /\ sent \in Nat /\ outgoing \in Seq(Nat \ {0})
    /\ typed \in 0 .. MaxTyped /\ Len(lines) <= typed + 1
    /\ seen \in [1 .. MaxTyped + 1 -> Nat]
    /\ ssl => conv.tls

\* The buffer holds what was sent, or a chunk that was not.
BufferSent == \A j \in 1 .. Len(outgoing) : outgoing[j] <= sent \/ outgoing[j] \in bad

\* The line that is being sent is in the buffer as far as it went, alone.
LineInBuffer ==
    \A i \in 1 .. MaxTyped + 2 :
        4 * i - 4 <= sent /\ sent < 4 * i /\ sent + 1 \notin bad /\ Clean(4 * i - 5, sent) =>
            /\ Len(outgoing) = sent - (4 * i - 4)
            /\ \A j \in 1 .. Len(outgoing) : outgoing[j] = 4 * i - 4 + j

\* The buffer ends with the last token sent, unless that is a line end.
LastInBuffer ==
    sent > 0 /\ sent \notin bad /\ sent + 1 \notin bad /\ Part(sent) # 4 =>
        Len(outgoing) > 0 /\ outgoing[Len(outgoing)] = sent

\* A line that was sent, or is to be sent.
SentLine(i) == 4 * i <= sent /\ Clean(4 * i - 5, 4 * i)
LaterLine(i) == 4 * i > sent /\ Clean(4 * i - 5, 4 * i)

\* A line that was sent is not in the buffer any more.
SentNotInBuffer ==
    \A i \in 1 .. MaxTyped + 1 : SentLine(i) =>
        \A j \in 1 .. Len(outgoing) : outgoing[j] \notin {4 * i - 3, 4 * i - 2}

\* The engines have seen the lines that were sent once, and no other.
SeenOnce ==
    \A i \in 1 .. MaxTyped + 1 :
        (SentLine(i) => seen[i] = 1) /\ (LaterLine(i) => seen[i] = 0)

BufferInv ==
    /\ BufferTyped
    /\ ~conv.tls =>
           BufferSent /\ LineInBuffer /\ LastInBuffer /\ SentNotInBuffer /\ SeenOnce

-----------------------------------------------------------------------------
(* The types.                                                               *)

TypedSocket ==
    /\ aged \in BOOLEAN /\ ssl \in BOOLEAN /\ counted \in BOOLEAN
    /\ keys.store \in {conv.own.store, NoKey}
    /\ faults \in 0 .. MaxFaults
    /\ state \in {"Initializing", "TlsHandshake", "Connected", "Closed"}

\* The buffer and the history are of tokens of the lines.
TypedTokens ==
    /\ Len(lines) > 0
    /\ \A j \in 1 .. Len(outgoing) : outgoing[j] <= Tokens
    /\ bad \subseteq 1 .. Tokens

\* A line in clear is nothing but its text, so the engine changes it only by sealing it.
ClearIsText ==
    \A i \in DOMAIN lines :
        lines[i].body.mark = "clear" => lines[i].body = Clear(lines[i].body.text)

MadeIsSealed == \A line \in made : line.body.mark # "clear" /\ ~line.action

TypesInv == TypedSocket /\ TypedTokens /\ ClearIsText /\ MadeIsSealed

-----------------------------------------------------------------------------
(* Sequences.                                                               *)

\* What Append does to a sequence of anything.
LEMMA Appended ==
    ASSUME NEW s, IsSequence(s), NEW e
    PROVE  /\ IsSequence(Append(s, e))
           /\ Len(s) \in Nat /\ Len(Append(s, e)) = Len(s) + 1
           /\ DOMAIN s = 1 .. Len(s) /\ DOMAIN Append(s, e) = 1 .. Len(s) + 1
           /\ \A i \in 1 .. Len(s) : Append(s, e)[i] = s[i]
           /\ Append(s, e)[Len(s) + 1] = e
<1> DEFINE S == ToSet(s) \cup {e}
<1>1. ToSet(s) \subseteq S OBVIOUS
<1>2. s \in Seq(S)
    <2>1. s \in Seq(ToSet(s)) BY DEF IsSequence
    <2> HIDE DEF S
    <2> QED BY <1>1, <2>1
<1>3. e \in S OBVIOUS
<1> HIDE DEF S
<1>4. /\ Append(s, e) \in Seq(S)
      /\ Len(s) \in Nat /\ Len(Append(s, e)) = Len(s) + 1
      /\ DOMAIN s = 1 .. Len(s) /\ DOMAIN Append(s, e) = 1 .. Len(s) + 1
      /\ \A i \in 1 .. Len(s) : Append(s, e)[i] = s[i]
      /\ Append(s, e)[Len(s) + 1] = e
    BY <1>2, <1>3
<1> DEFINE t == Append(s, e)
<1>5. t \in Seq(S) /\ Len(t) \in Nat /\ DOMAIN t = 1 .. Len(t) BY <1>4
<1> HIDE DEF t
<1>6. t \in Seq(ToSet(t)) BY <1>5 DEF ToSet
<1>7. IsSequence(Append(s, e)) BY <1>6 DEF t, IsSequence
<1> QED BY <1>4, <1>7

-----------------------------------------------------------------------------
(* The line buffer.                                                         *)

\* A set of positions has a last one, Max.
LEMMA LastPosition ==
    ASSUME NEW n \in Nat, NEW S \in SUBSET (0 .. n), S # {}
    PROVE  Max(S) \in S /\ \A y \in S : Max(S) >= y
<1> DEFINE T == {n - i : i \in S}
           R == {p \in Nat \X Nat : p[1] < p[2]}
<1>1. T \in SUBSET Nat /\ T # {}
    <2>1. \A i \in S : n - i \in Nat /\ n - i \in T OBVIOUS
    <2> QED BY <2>1
<1>2. IsWellFoundedOn(R, Nat)
    <2>1. OpToRel(<, Nat) = R BY DEF OpToRel
    <2> QED BY <2>1, NatLessThanWellFounded
<1> HIDE DEF R
<1>3. PICK t \in T : \A y \in T : ~(<<y, t>> \in R)
    <2> HIDE DEF T
    <2> QED BY <1>1, <1>2, WFMin
<1>4. PICK x \in S : t = n - x OBVIOUS
<1>5. \A y \in S : x >= y
    <2> SUFFICES ASSUME NEW y \in S PROVE x >= y OBVIOUS
    <2>1. n - y \in T OBVIOUS
    <2>2. ~(<<n - y, t>> \in R) BY <1>3, <2>1
    <2> QED BY <1>4, <2>2 DEF R
<1> QED BY <1>5 DEF Max

\* The parts of a line, and the line of a token.
LEMMA Parts ==
    /\ \A i \in Nat \ {0} :
           Part(4 * i - 3) = 1 /\ Part(4 * i - 2) = 2 /\ Part(4 * i - 1) = 3 /\ Part(4 * i) = 4
    /\ \A t \in Nat \ {0} : \E i \in Nat \ {0} : t \in (4 * i - 3) .. (4 * i)
<1>1. \A i \in Nat \ {0} :
          Part(4 * i - 3) = 1 /\ Part(4 * i - 2) = 2 /\ Part(4 * i - 1) = 3 /\ Part(4 * i) = 4
    BY DEF Part
<1>2. ASSUME NEW t \in Nat \ {0} PROVE \E i \in Nat \ {0} : t \in (4 * i - 3) .. (4 * i)
    <2> DEFINE i == ((t - 1) \div 4) + 1
    <2>1. i \in Nat \ {0} /\ t \in (4 * i - 3) .. (4 * i) OBVIOUS
    <2> QED BY <2>1
<1> QED BY <1>1, <1>2

\* A chunk behind what the buffer holds (line_buf.push_str).
LEMMA Pushed ==
    ASSUME NEW o \in Seq(Nat \ {0}), NEW s \in Nat, NEW n \in Nat \ {0}
    PROVE  LET buffer == o \o [j \in 1 .. n |-> s + j]
           IN  /\ buffer \in Seq(Nat \ {0})
               /\ Len(o) \in Nat /\ Len(buffer) = Len(o) + n
               /\ \A j \in 1 .. Len(o) : buffer[j] = o[j]
               /\ \A j \in (Len(o) + 1) .. (Len(o) + n) : buffer[j] = s + j - Len(o)
<1> DEFINE chunk == [j \in 1 .. n |-> s + j]
<1>1. chunk \in Seq(Nat \ {0}) /\ Len(chunk) = n OBVIOUS
<1>2. \A j \in 1 .. n : chunk[j] = s + j OBVIOUS
<1> HIDE DEF chunk
<1>3. o \o chunk \in Seq(Nat \ {0}) BY <1>1
<1>4. Len(o) \in Nat /\ Len(o \o chunk) = Len(o) + n BY <1>1
<1>5. \A j \in 1 .. Len(o) : (o \o chunk)[j] = o[j] BY <1>1
<1>6. \A j \in (Len(o) + 1) .. (Len(o) + n) : (o \o chunk)[j] = s + j - Len(o)
    BY <1>1, <1>2, <1>4
<1> QED BY <1>3, <1>4, <1>5, <1>6 DEF chunk

\* What stays in the buffer is what follows the last line end.
LEMMA Kept ==
    ASSUME NEW buffer \in Seq(Nat \ {0})
    PROVE  \E m \in {0} \cup LineEnds(buffer) :
               /\ \A e \in LineEnds(buffer) : e <= m
               /\ m \in 0 .. Len(buffer)
               /\ Remaining(buffer) \in Seq(Nat \ {0})
               /\ Len(Remaining(buffer)) = Len(buffer) - m
               /\ \A j \in 1 .. Len(buffer) - m : Remaining(buffer)[j] = buffer[m + j]
<1> DEFINE S == {0} \cup LineEnds(buffer)
           m == Max(S)
<1>1. Len(buffer) \in Nat /\ S \in SUBSET (0 .. Len(buffer)) /\ S # {} BY DEF LineEnds
<1>2. m \in S /\ \A e \in S : m >= e
    <2> HIDE DEF S
    <2> QED BY <1>1, LastPosition
<1> HIDE DEF m
<1>3. m \in 0 .. Len(buffer) /\ \A e \in LineEnds(buffer) : e <= m BY <1>1, <1>2
<1>4. Remaining(buffer) = SubSeq(buffer, m + 1, Len(buffer)) BY DEF Remaining, m
<1>5. /\ Remaining(buffer) \in Seq(Nat \ {0})
      /\ Len(Remaining(buffer)) = Len(buffer) - m
      /\ \A j \in 1 .. Len(buffer) - m : Remaining(buffer)[j] = buffer[m + j]
    BY <1>1, <1>3, <1>4
<1> QED BY <1>2, <1>3, <1>5

\* A line end that is sent in whole chunks is found in the buffer, also if CR went out
\* with the chunk before.
LEMMA EndFound ==
    ASSUME BufferTyped, LastInBuffer, NEW n \in Nat \ {0}, NEW i \in Nat \ {0},
           sent < 4 * i, 4 * i <= sent + n, Clean(4 * i - 1, 4 * i)
    PROVE  Len(outgoing) + 4 * i - sent \in LineEnds(Buffer(n))
<1> DEFINE L == Len(outgoing)
           buffer == Buffer(n)
           e == L + 4 * i - sent
<1>1. /\ L \in Nat /\ Len(buffer) = L + n /\ sent \in Nat
      /\ \A j \in 1 .. L : buffer[j] = outgoing[j]
      /\ \A j \in (L + 1) .. (L + n) : buffer[j] = sent + j - L
    BY Pushed DEF BufferTyped, Buffer
<1>2. Part(4 * i - 1) = 3 /\ Part(4 * i) = 4 BY Parts
<1> HIDE DEF buffer, L
<1>3. e \in (L + 1) .. (L + n) /\ buffer[e] = 4 * i BY <1>1
<1>4. e - 1 \in 1 .. L + n /\ buffer[e - 1] = 4 * i - 1
    <2>1. CASE sent < 4 * i - 1 BY <1>1, <2>1
    <2>2. CASE sent = 4 * i - 1
        <3>1. sent \notin bad /\ sent + 1 \notin bad BY <2>2 DEF Clean
        <3>2. L > 0 /\ outgoing[L] = sent BY <1>1, <1>2, <2>2, <3>1 DEF LastInBuffer, L
        <3>3. e - 1 = L /\ L \in 1 .. L BY <1>1, <2>2, <3>2
        <3> QED BY <1>1, <2>2, <3>2, <3>3
    <2> QED BY <1>1, <2>1, <2>2
<1>5. e \in 2 .. Len(buffer) BY <1>1, <1>3, <1>4
<1> QED BY <1>2, <1>3, <1>4, <1>5 DEF LineEnds, L, buffer

\* A line that ends in this chunk, sent in whole chunks like the line end before it,
\* is one of the pieces.
LEMMA WholeIsPassed ==
    ASSUME BufferTyped, LastInBuffer, LineInBuffer,
           NEW n \in Nat \ {0}, NEW i \in DOMAIN lines, i \in 1 .. MaxTyped + 1,
           sent < 4 * i, 4 * i <= sent + n, Clean(4 * i - 5, 4 * i)
    PROVE  i \in WholeLines(Buffer(n))
<1> DEFINE L == Len(outgoing)
           buffer == Buffer(n)
           e == L + 4 * i - sent
<1>1. i \in Nat \ {0} /\ MaxTyped \in Nat BY BoundsAssumption
<1>2. /\ L \in Nat /\ Len(buffer) = L + n /\ sent \in Nat
      /\ \A j \in 1 .. L : buffer[j] = outgoing[j]
      /\ \A j \in (L + 1) .. (L + n) : buffer[j] = sent + j - L
    BY Pushed DEF BufferTyped, Buffer
<1>3. e \in LineEnds(buffer)
    <2>1. Clean(4 * i - 1, 4 * i) BY <1>1 DEF Clean
    <2> QED BY <1>1, <2>1, EndFound
<1>4. SUFFICES /\ e = 4 \/ e - 4 \in LineEnds(buffer)
               /\ buffer[e - 3] = 4 * i - 3 /\ buffer[e - 2] = 4 * i - 2
    BY <1>3 DEF WholeLines
<1> HIDE DEF buffer, L
<1>5. CASE sent >= 4 * i - 4
    <2>1. sent + 1 \in (4 * i - 5) .. (4 * i) /\ sent \in Int BY <1>1, <1>2, <1>5
    <2>2. Clean(4 * i - 5, sent) /\ sent + 1 \notin bad BY <1>1, <2>1 DEF Clean
    <2>3. L = sent - (4 * i - 4) /\ \A j \in 1 .. L : outgoing[j] = 4 * i - 4 + j
        BY <1>1, <1>5, <2>2 DEF LineInBuffer, L
    <2>4. e = 4 BY <1>1, <1>2, <2>3
    <2>5. \A j \in 1 .. 4 : buffer[j] = 4 * i - 4 + j
        <3> SUFFICES ASSUME NEW j \in 1 .. 4 PROVE buffer[j] = 4 * i - 4 + j OBVIOUS
        <3>1. CASE j \in 1 .. L BY <1>2, <2>3, <3>1
        <3>2. CASE j \in (L + 1) .. (L + n)
            <4>1. buffer[j] = sent + j - L BY <1>2, <3>2
            <4>2. L \in Nat /\ sent \in Nat /\ L = sent - (4 * i - 4) BY <1>2, <2>3
            <4> QED BY <1>1, <4>1, <4>2
        <3>3. L + n >= 4 BY <1>1, <1>2, <2>3
        <3> QED BY <1>2, <3>1, <3>2, <3>3
    <2>6. buffer[1] = 4 * i - 3 /\ buffer[2] = 4 * i - 2 BY <1>1, <2>5
    <2> QED BY <2>4, <2>6
<1>6. CASE sent < 4 * i - 4
    <2>1. i - 1 \in Nat \ {0} BY <1>1, <1>2, <1>6
    <2>2. Clean(4 * (i - 1) - 1, 4 * (i - 1)) BY <1>1 DEF Clean
    <2>3. Len(outgoing) + 4 * (i - 1) - sent \in LineEnds(Buffer(n))
        BY <1>1, <1>2, <1>6, <2>1, <2>2, EndFound
    <2>4. e - 4 \in LineEnds(buffer) BY <1>1, <1>2, <2>3 DEF L, buffer
    <2>5. L \in Nat /\ sent \in Nat BY <1>2
    <2>6. e - 3 \in (L + 1) .. (L + n) /\ e - 2 \in (L + 1) .. (L + n)
        BY <1>1, <1>6, <2>5
    <2>7. buffer[e - 3] = sent + (e - 3) - L /\ buffer[e - 2] = sent + (e - 2) - L
        BY <1>2, <2>6
    <2>8. buffer[e - 3] = 4 * i - 3 /\ buffer[e - 2] = 4 * i - 2
        BY <1>1, <2>5, <2>7
    <2> QED BY <2>4, <2>8
<1> QED BY <1>1, <1>2, <1>5, <1>6

\* A line whose end is not sent yet is none of them.
LEMMA UnfinishedIsNotPassed ==
    ASSUME BufferTyped, BufferSent, LineInBuffer,
           NEW n \in Nat \ {0}, NEW i \in 1 .. MaxTyped + 1,
           4 * i > sent + n, Clean(4 * i - 5, 4 * i)
    PROVE  i \notin WholeLines(Buffer(n))
<1> DEFINE L == Len(outgoing)
           buffer == Buffer(n)
<1>1. i \in Nat \ {0} /\ MaxTyped \in Nat BY BoundsAssumption
<1>2. /\ L \in Nat /\ Len(buffer) = L + n /\ sent \in Nat
      /\ \A j \in 1 .. L : buffer[j] = outgoing[j] /\ outgoing[j] \in Nat
      /\ \A j \in (L + 1) .. (L + n) : buffer[j] = sent + j - L
    BY Pushed DEF BufferTyped, Buffer
<1>3. SUFFICES ASSUME NEW e \in 2 .. L + n, e = 4 \/ e - 4 \in 2 .. L + n,
                      buffer[e - 3] = 4 * i - 3, buffer[e - 2] = 4 * i - 2
               PROVE  FALSE
    BY <1>2 DEF WholeLines, LineEnds
<1> HIDE DEF buffer, L
<1>4. e - 2 \in 1 .. L + n /\ e - 3 \in 1 .. L + n BY <1>2, <1>3
<1>5. 4 * i - 2 \notin bad /\ 4 * i - 1 \notin bad /\ 4 * i \notin bad BY <1>1 DEF Clean
<1>6. CASE e - 2 \in 1 .. L
    <2>1. outgoing[e - 2] = 4 * i - 2 BY <1>2, <1>3, <1>6
    <2>2. sent >= 4 * i - 2 BY <1>1, <1>2, <1>5, <1>6, <2>1 DEF BufferSent, L
    <2>3. sent + 1 \in {4 * i - 1, 4 * i} BY <1>1, <1>2, <2>2
    <2>4. sent + 1 \notin bad BY <1>5, <2>3
    <2>5. Clean(4 * i - 5, sent) BY <1>1, <1>2 DEF Clean
    <2>6. L = sent - (4 * i - 4) BY <1>1, <1>2, <2>2, <2>4, <2>5 DEF LineInBuffer, L
    <2>7. \A j \in 1 .. L : outgoing[j] = 4 * i - 4 + j
        BY <1>1, <1>2, <2>2, <2>4, <2>5 DEF LineInBuffer, L
    <2>8. e = 4 BY <1>1, <1>2, <1>6, <2>1, <2>7
    <2> QED BY <1>1, <1>2, <1>3, <2>6, <2>8
<1>7. CASE e - 2 \in (L + 1) .. (L + n)
    <2>1. sent + (e - 2) - L = 4 * i - 2 BY <1>2, <1>3, <1>7
    <2> QED BY <1>1, <1>2, <1>3, <2>1
<1> QED BY <1>2, <1>4, <1>6, <1>7

\* Neither is a line that was passed before.
LEMMA SentIsNotPassed ==
    ASSUME BufferTyped, SentNotInBuffer,
           NEW n \in Nat \ {0}, NEW i \in 1 .. MaxTyped + 1, SentLine(i)
    PROVE  i \notin WholeLines(Buffer(n))
<1> DEFINE L == Len(outgoing)
           buffer == Buffer(n)
<1>1. i \in Nat \ {0} /\ MaxTyped \in Nat BY BoundsAssumption
<1>2. /\ L \in Nat /\ Len(buffer) = L + n /\ sent \in Nat
      /\ \A j \in 1 .. L : buffer[j] = outgoing[j]
      /\ \A j \in (L + 1) .. (L + n) : buffer[j] = sent + j - L
    BY Pushed DEF BufferTyped, Buffer
<1>3. SUFFICES ASSUME NEW e \in 2 .. L + n, e = 4 \/ e - 4 \in 2 .. L + n,
                      buffer[e - 2] = 4 * i - 2
               PROVE  FALSE
    BY <1>2 DEF WholeLines, LineEnds
<1> HIDE DEF buffer, L
<1>4. 4 * i <= sent /\ \A j \in 1 .. L : outgoing[j] # 4 * i - 2
    BY DEF SentNotInBuffer, SentLine, L
<1>5. CASE e - 2 \in 1 .. L BY <1>2, <1>3, <1>4, <1>5
<1>6. CASE e - 2 \in (L + 1) .. (L + n) BY <1>1, <1>2, <1>3, <1>4, <1>6
<1> QED BY <1>2, <1>3, <1>5, <1>6

\* A chunk that is UTF-8 and sent whole: the lines that it ends leave the buffer, and
\* what was sent of the next one stays in it.
LEMMA WholeChunkKeeps ==
    ASSUME BufferTyped, BufferSent, LineInBuffer, LastInBuffer, SentNotInBuffer,
           NEW n \in Nat \ {0}, sent' = sent + n, bad' = bad, outgoing' = Remaining(Buffer(n))
    PROVE  (BufferSent /\ LineInBuffer /\ LastInBuffer /\ SentNotInBuffer)'
<1> DEFINE L == Len(outgoing)
           buffer == Buffer(n)
<1>1. /\ buffer \in Seq(Nat \ {0}) /\ Len(buffer) = L + n
      /\ \A j \in 1 .. L : buffer[j] = outgoing[j]
      /\ \A j \in (L + 1) .. (L + n) : buffer[j] = sent + j - L
    BY Pushed DEF BufferTyped, Buffer
<1>2. L \in Nat /\ sent \in Nat /\ MaxTyped \in Nat BY BoundsAssumption DEF BufferTyped
<1>3. outgoing' = Remaining(buffer) OBVIOUS
<1>4. \A e \in LineEnds(buffer) : e \in 2 .. L + n /\ Part(buffer[e]) = 4
    BY <1>1 DEF LineEnds
<1> HIDE DEF buffer
<1>5. PICK cut \in {0} \cup LineEnds(buffer) :
          /\ \A e \in LineEnds(buffer) : e <= cut
          /\ cut \in 0 .. Len(buffer)
          /\ Len(Remaining(buffer)) = Len(buffer) - cut
          /\ \A j \in 1 .. Len(buffer) - cut : Remaining(buffer)[j] = buffer[cut + j]
    BY <1>1, Kept
<1>6. /\ \A e \in LineEnds(buffer) : e <= cut
      /\ cut \in 0 .. L + n
      /\ Len(outgoing') = L + n - cut
      /\ \A j \in 1 .. L + n - cut : outgoing'[j] = buffer[cut + j]
    BY <1>1, <1>3, <1>5
<1>7. BufferSent'
    <2> SUFFICES ASSUME NEW j \in 1 .. L + n - cut
                 PROVE  buffer[cut + j] <= sent + n \/ buffer[cut + j] \in bad
        BY <1>6 DEF BufferSent
    <2>1. CASE cut + j \in 1 .. L
        <3>1. outgoing[cut + j] \in Nat BY <2>1 DEF BufferTyped
        <3>2. outgoing[cut + j] <= sent \/ outgoing[cut + j] \in bad BY <2>1 DEF BufferSent
        <3> QED BY <1>1, <1>2, <2>1, <3>1, <3>2
    <2>2. CASE cut + j \in (L + 1) .. (L + n)
        <3>1. buffer[cut + j] = sent + (cut + j) - L BY <1>1, <2>2
        <3> QED BY <1>2, <2>2, <3>1
    <2> QED BY <1>2, <1>6, <2>1, <2>2
<1>8. LineInBuffer'
    <2> SUFFICES ASSUME NEW i \in 1 .. MaxTyped + 2,
                        4 * i - 4 <= sent + n, sent + n < 4 * i, Clean(4 * i - 5, sent + n)
                 PROVE  /\ L + n - cut = sent + n - (4 * i - 4)
                        /\ \A j \in 1 .. L + n - cut : buffer[cut + j] = 4 * i - 4 + j
        <3>1. SUFFICES ASSUME NEW i \in 1 .. MaxTyped + 2, 4 * i - 4 <= sent', sent' < 4 * i,
                              Clean(4 * i - 5, sent)'
                       PROVE  /\ Len(outgoing') = sent' - (4 * i - 4)
                              /\ \A j \in 1 .. Len(outgoing') : outgoing'[j] = 4 * i - 4 + j
            BY DEF LineInBuffer
        <3>2. Clean(4 * i - 5, sent + n) BY <3>1 DEF Clean
        <3>3. L + n - cut = sent + n - (4 * i - 4) BY <3>1, <3>2
        <3>4. \A j \in 1 .. L + n - cut : buffer[cut + j] = 4 * i - 4 + j BY <3>1, <3>2
        <3>5. \A j \in 1 .. L + n - cut : outgoing'[j] = 4 * i - 4 + j BY <1>6, <3>4
        <3>6. Len(outgoing') = L + n - cut BY <1>6
        <3>7. Len(outgoing') = sent' - (4 * i - 4) BY <1>2, <3>3, <3>6
        <3> QED BY <3>5, <3>6, <3>7
    <2>1. CASE sent < 4 * i - 4
        <3> DEFINE e == L + 4 * (i - 1) - sent
        <3>1. i - 1 \in Nat \ {0} BY <1>2, <2>1
        <3>2. Clean(4 * (i - 1) - 1, 4 * (i - 1)) BY <1>2 DEF Clean
        <3>3. sent < 4 * (i - 1) /\ 4 * (i - 1) <= sent + n BY <1>2, <2>1
        <3>4. e \in LineEnds(buffer) BY <3>1, <3>2, <3>3, EndFound DEF buffer
        <3>5. e \in (L + 1) .. (L + n) BY <1>2, <2>1
        <3>6. cut = e
            <4>1. e <= cut BY <1>6, <3>4
            <4>2. e \in Int /\ cut \in Int BY <3>5, <1>6
            <4>3. SUFFICES ASSUME cut > e PROVE FALSE
                <5> HIDE DEF e
                <5> QED BY <4>1, <4>2
            <4>4. cut \in (L + 1) .. (L + n) /\ cut \in LineEnds(buffer)
                BY <1>2, <1>6, <3>5, <4>3
            <4>5. buffer[cut] = sent + cut - L /\ Part(buffer[cut]) = 4 BY <1>1, <1>4, <4>4
            <4>6. buffer[cut] \in {4 * i - 3, 4 * i - 2, 4 * i - 1} BY <1>2, <4>4, <4>5, <4>3
            <4> QED BY <4>5, <4>6, Parts
        <3> HIDE DEF e
        <3>7. \A j \in 1 .. L + n - cut : buffer[cut + j] = sent + (cut + j) - L
            BY <1>1, <1>2, <3>5, <3>6
        <3>8. cut = L + 4 * (i - 1) - sent BY <3>6 DEF e
        <3> QED BY <1>2, <3>7, <3>8
    <2>2. CASE sent >= 4 * i - 4
        <3>1. sent + 1 \notin bad /\ Clean(4 * i - 5, sent)
            <4>1. sent + 1 \in (4 * i - 5) .. (sent + n) BY <1>2, <2>2
            <4> QED BY <1>2, <4>1 DEF Clean
        <3>2. L = sent - (4 * i - 4) /\ \A j \in 1 .. L : outgoing[j] = 4 * i - 4 + j
            BY <1>2, <2>2, <3>1 DEF LineInBuffer
        <3>3. ASSUME NEW j \in 1 .. L + n PROVE buffer[j] = 4 * i - 4 + j
            <4>1. CASE j \in 1 .. L BY <1>1, <3>2, <4>1
            <4>2. CASE j \in (L + 1) .. (L + n)
                <5>1. buffer[j] = sent + j - L BY <1>1, <4>2
                <5> QED BY <1>2, <3>2, <5>1
            <4> QED BY <1>2, <4>1, <4>2
        <3>4. cut = 0
            <4> SUFFICES ASSUME cut \in LineEnds(buffer) PROVE FALSE BY <1>6
            <4>1. cut \in 1 .. L + n /\ Part(buffer[cut]) = 4 BY <1>2, <1>4
            <4>2. cut \in {1, 2, 3} BY <1>2, <3>2, <4>1
            <4>3. buffer[cut] = 4 * i - 4 + cut BY <3>3, <4>1
            <4>4. buffer[cut] \in {4 * i - 3, 4 * i - 2, 4 * i - 1} BY <4>2, <4>3
            <4> QED BY <4>1, <4>4, Parts
        <3> QED BY <1>2, <3>2, <3>3, <3>4
    <2> QED BY <1>2, <2>1, <2>2
<1>9. LastInBuffer'
    <2> SUFFICES ASSUME Part(sent + n) # 4
                 PROVE  L + n - cut > 0 /\ buffer[cut + (L + n - cut)] = sent + n
        <3>1. L + n - cut \in Nat BY <1>2, <1>6
        <3> QED BY <1>6, <3>1 DEF LastInBuffer, Part
    <2>1. buffer[L + n] = sent + (L + n) - L BY <1>1, <1>2
    <2>2. buffer[L + n] = sent + n BY <1>2, <2>1
    <2>3. L + n \notin LineEnds(buffer) BY <1>4, <2>2
    <2>4. cut # L + n BY <1>2, <1>6, <2>3
    <2>5. cut + (L + n - cut) = L + n BY <1>2, <1>6
    <2> QED BY <1>2, <1>6, <2>2, <2>4, <2>5
<1>10. SentNotInBuffer'
    <2> SUFFICES ASSUME NEW i \in 1 .. MaxTyped + 1, 4 * i <= sent + n, Clean(4 * i - 5, 4 * i),
                        NEW j \in 1 .. L + n - cut
                 PROVE  buffer[cut + j] \notin {4 * i - 3, 4 * i - 2}
        BY <1>6 DEF SentNotInBuffer, SentLine, Clean
    <2>1. CASE 4 * i <= sent
        <3>1. CASE cut + j \in 1 .. L
            BY <1>1, <2>1, <3>1 DEF SentNotInBuffer, SentLine
        <3>2. CASE cut + j \in (L + 1) .. (L + n)
            <4>1. buffer[cut + j] = sent + (cut + j) - L BY <1>1, <3>2
            <4> QED BY <1>2, <2>1, <3>2, <4>1
        <3> QED BY <1>2, <1>6, <3>1, <3>2
    <2>2. CASE sent < 4 * i
        <3>1. Clean(4 * i - 1, 4 * i) /\ i \in Nat \ {0} BY <1>2 DEF Clean
        <3>2. L + 4 * i - sent \in LineEnds(buffer) BY <2>2, <3>1, EndFound DEF buffer
        <3>3. L + 4 * i - sent <= cut BY <1>6, <3>2
        <3>4. cut + j \in (L + 1) .. (L + n) BY <1>2, <1>6, <2>2, <3>3
        <3>5. buffer[cut + j] = sent + (cut + j) - L BY <1>1, <3>4
        <3> QED BY <1>2, <1>6, <3>3, <3>5
    <2> QED BY <1>2, <2>1, <2>2
<1> QED BY <1>7, <1>8, <1>9, <1>10

\* Any other chunk says nothing of lines that it has no part of, whether it was put in
\* the buffer or not.
LEMMA BrokenChunkKeeps ==
    ASSUME BufferTyped, BufferSent, SentNotInBuffer,
           NEW n \in Nat \ {0}, NEW m \in 0 .. n, sent' = sent + m,
           \A t \in bad : t \in bad', \A t \in (sent + 1) .. (sent + n) : t \in bad',
           outgoing' = outgoing \/ (m < n /\ outgoing' = Remaining(Buffer(n)))
    PROVE  (BufferSent /\ LineInBuffer /\ LastInBuffer /\ SentNotInBuffer)'
<1> DEFINE L == Len(outgoing)
           buffer == Buffer(n)
<1>1. /\ buffer \in Seq(Nat \ {0}) /\ Len(buffer) = L + n
      /\ \A j \in 1 .. L : buffer[j] = outgoing[j]
      /\ \A j \in (L + 1) .. (L + n) : buffer[j] = sent + j - L
    BY Pushed DEF BufferTyped, Buffer
<1>2. L \in Nat /\ sent \in Nat /\ MaxTyped \in Nat BY BoundsAssumption DEF BufferTyped
<1>3. ASSUME NEW j \in 1 .. Len(outgoing')
      PROVE  \E k \in 1 .. L + n : outgoing'[j] = buffer[k]
    <2>1. CASE outgoing' = outgoing BY <1>1, <1>2, <2>1
    <2>2. CASE outgoing' = Remaining(buffer)
        <3> HIDE DEF buffer
        <3>1. PICK cut \in {0} \cup LineEnds(buffer) :
                  /\ cut \in 0 .. Len(buffer)
                  /\ Len(Remaining(buffer)) = Len(buffer) - cut
                  /\ \A i \in 1 .. Len(buffer) - cut : Remaining(buffer)[i] = buffer[cut + i]
            BY <1>1, Kept
        <3>2. j \in 1 .. Len(buffer) - cut /\ outgoing'[j] = buffer[cut + j] BY <2>2, <3>1
        <3>3. cut + j \in 1 .. L + n BY <1>1, <1>2, <3>1, <3>2
        <3> QED BY <3>2, <3>3
    <2> QED BY <2>1, <2>2
<1>4. ASSUME NEW k \in 1 .. L + n
      PROVE  \/ k \in 1 .. L /\ buffer[k] = outgoing[k] /\ outgoing[k] \in Nat
             \/ buffer[k] \in bad' /\ buffer[k] \in (sent + 1) .. (sent + n)
    <2>1. CASE k \in 1 .. L BY <1>1, <2>1 DEF BufferTyped
    <2>2. CASE k \in (L + 1) .. (L + n)
        <3>1. buffer[k] = sent + k - L BY <1>1, <2>2
        <3>2. sent + k - L \in (sent + 1) .. (sent + n) BY <1>2, <2>2
        <3> QED BY <3>1, <3>2
    <2> QED BY <1>2, <2>1, <2>2
<1> HIDE DEF buffer
<1>5. sent' = sent + m /\ sent' \in Nat /\ sent' >= sent BY <1>2
<1>6. BufferSent'
    <2> SUFFICES ASSUME NEW j \in 1 .. Len(outgoing')
                 PROVE  outgoing'[j] <= sent' \/ outgoing'[j] \in bad'
        BY DEF BufferSent
    <2>1. PICK k \in 1 .. L + n : outgoing'[j] = buffer[k] BY <1>3
    <2>2. CASE buffer[k] \in bad' BY <2>1, <2>2
    <2>3. CASE k \in 1 .. L /\ buffer[k] = outgoing[k] /\ outgoing[k] \in Nat
        <3>1. outgoing[k] <= sent \/ outgoing[k] \in bad BY <2>3 DEF BufferSent
        <3> QED BY <1>2, <1>5, <2>1, <2>3, <3>1
    <2> QED BY <1>4, <2>2, <2>3
<1>7. sent' \in bad' \/ sent' + 1 \in bad'
    <2>1. CASE m < n
        <3>1. sent + m + 1 \in (sent + 1) .. (sent + n) BY <1>2, <2>1
        <3> QED BY <1>2, <3>1
    <2>2. CASE m = n
        <3>1. sent + m \in (sent + 1) .. (sent + n) BY <1>2, <2>2
        <3> QED BY <3>1
    <2> QED BY <2>1, <2>2
<1>8. LineInBuffer'
    <2>1. SUFFICES ASSUME NEW i \in 1 .. MaxTyped + 2, 4 * i - 4 <= sent',
                          sent' + 1 \notin bad', Clean(4 * i - 5, sent)'
                   PROVE  FALSE
        BY DEF LineInBuffer
    <2>2. sent' \in (4 * i - 5) .. sent' BY <1>2, <1>5, <2>1
    <2>3. sent' \notin bad' BY <2>1, <2>2 DEF Clean
    <2> QED BY <1>7, <2>1, <2>3
<1>9. LastInBuffer' BY <1>7 DEF LastInBuffer
<1>10. SentNotInBuffer'
    <2>1. SUFFICES ASSUME NEW i \in 1 .. MaxTyped + 1, SentLine(i)',
                          NEW j \in 1 .. Len(outgoing')
                   PROVE  outgoing'[j] \notin {4 * i - 3, 4 * i - 2}
        BY DEF SentNotInBuffer
    <2>2. \A t \in (4 * i - 5) .. (4 * i) : t \notin bad' /\ t \notin bad
        BY <2>1 DEF SentLine, Clean
    <2>3. 4 * i <= sent
        <3>1. 4 * i <= sent + m /\ 4 * i \notin bad' BY <1>2, <1>5, <2>1, <2>2 DEF SentLine
        <3> QED BY <1>2, <3>1
    <2>4. SentLine(i) BY <2>2, <2>3 DEF SentLine, Clean
    <2>5. PICK k \in 1 .. L + n : outgoing'[j] = buffer[k] BY <1>3
    <2>6. CASE buffer[k] \in bad' BY <1>2, <2>2, <2>5, <2>6
    <2>7. CASE k \in 1 .. L /\ buffer[k] = outgoing[k]
        BY <2>4, <2>5, <2>7 DEF SentNotInBuffer
    <2> QED BY <1>4, <2>6, <2>7
<1> QED BY <1>6, <1>8, <1>9, <1>10

\* The engines are passed each line that ends in the chunk, and no other again.
LEMMA PassedKeepsSeen ==
    ASSUME BufferTyped, BufferSent, LineInBuffer, LastInBuffer, SentNotInBuffer, SeenOnce,
           sent <= Tokens, DOMAIN lines = 1 .. Len(lines), Len(lines) \in Nat,
           NEW n \in Nat \ {0}, NEW m \in 0 .. n, sent + n <= Tokens, sent' = sent + m,
           \A t \in bad : t \in bad',
           (m = n /\ bad' = bad) \/ \A t \in (sent + 1) .. (sent + n) : t \in bad',
           NEW whole, whole = WholeLines(Buffer(n)),
           seen' = [i \in DOMAIN seen |-> seen[i] + (IF i \in whole THEN 1 ELSE 0)]
    PROVE  SeenOnce'
<1>1. sent \in Nat /\ MaxTyped \in Nat BY BoundsAssumption DEF BufferTyped
<1> SUFFICES ASSUME NEW i \in 1 .. MaxTyped + 1
             PROVE  (SentLine(i)' => seen'[i] = 1) /\ (LaterLine(i)' => seen'[i] = 0)
    BY DEF SeenOnce
<1>2. /\ seen[i] \in Nat
      /\ seen'[i] = seen[i] + (IF i \in whole THEN 1 ELSE 0)
    BY DEF BufferTyped
<1>3. ASSUME SentLine(i)' PROVE seen'[i] = 1
    <2>1. Clean(4 * i - 5, 4 * i) /\ 4 * i <= sent + m /\ 4 * i \notin bad'
        BY <1>1, <1>3 DEF SentLine, Clean
    <2>2. CASE 4 * i <= sent
        <3>1. SentLine(i) BY <2>1, <2>2 DEF SentLine
        <3>2. i \notin whole BY <3>1, SentIsNotPassed
        <3>3. seen[i] = 1 BY <3>1 DEF SeenOnce
        <3> QED BY <1>2, <3>2, <3>3
    <2>3. CASE sent < 4 * i
        <3>1. seen[i] = 0 BY <1>1, <2>1, <2>3 DEF SeenOnce, LaterLine
        <3>2. m = n BY <1>1, <2>1, <2>3
        <3>3. i \in DOMAIN lines BY <1>1, <2>1 DEF Tokens
        <3>4. i \in whole BY <2>1, <2>3, <3>2, <3>3, WholeIsPassed
        <3> QED BY <1>2, <3>1, <3>4
    <2> QED BY <1>1, <2>2, <2>3
<1>4. ASSUME LaterLine(i)' PROVE seen'[i] = 0
    <2>1. Clean(4 * i - 5, 4 * i) /\ 4 * i > sent + m /\ 4 * i \notin bad'
        BY <1>1, <1>4 DEF LaterLine, Clean
    <2>2. LaterLine(i) BY <1>1, <2>1 DEF LaterLine
    <2>3. seen[i] = 0 BY <2>2 DEF SeenOnce
    <2>4. 4 * i > sent + n BY <1>1, <2>1
    <2>5. i \notin whole BY <2>1, <2>4, UnfinishedIsNotPassed
    <2> QED BY <1>2, <2>3, <2>5
<1> QED BY <1>3, <1>4

-----------------------------------------------------------------------------
(* Sealing and opening a line.                                              *)

\* A target keeps its case when its STATUSMSG prefix is taken off, and stays a
\* channel or a nickname (normalize_target).
LEMMA NormalKeepsName ==
    ASSUME NEW to \in Targets
    PROVE  AsWritten(Normal(to)) = AsWritten(to) /\ Normal(to).channel = to.channel
BY DEF Targets, Normal, AsWritten

\* Whatever keys the script has, what its two commands return is well sealed or
\* in clear (FiSH11_EncryptMsg, FiSH10_EncryptMsg).
LEMMA ScriptSealsWell ==
    ASSUME NEW own, NEW input, input.to \in Targets
    PROVE  WellSealed(own, LineOf(input, ScriptSeals(own, input.to, input.text)))
<1> DEFINE to == input.to
           line == LineOf(input, ScriptSeals(own, to, input.text))
<1>1. line.to = to /\ line.body = ScriptSeals(own, to, input.text) BY DEF LineOf
<1>2. AsWritten(Normal(to)) = AsWritten(to) BY NormalKeepsName
<1> SUFFICES WellSealed(own, line) OBVIOUS
<1> HIDE DEF line
<1>3. CASE own.legacy # NoKey /\ (~to.channel \/ to.status)
    BY <1>1, <1>3 DEF WellSealed, ScriptSeals, EncryptMsg10, Sealed
<1>4. CASE ~(own.legacy # NoKey /\ (~to.channel \/ to.status))
    <2>1. line.body = EncryptMsg(own, to, input.text) BY <1>1, <1>4 DEF ScriptSeals
    <2>2. CASE to.channel /\ own.channel # NoKey
        BY <1>1, <1>2, <2>1, <2>2 DEF WellSealed, EncryptMsg, Sealed
    <2>3. CASE ~(to.channel /\ own.channel # NoKey) /\ own.store # NoKey
        BY <1>1, <2>1, <2>3 DEF WellSealed, EncryptMsg, Sealed
    <2>4. CASE ~(to.channel /\ own.channel # NoKey) /\ own.store = NoKey
        BY <1>1, <2>1, <2>4 DEF WellSealed, EncryptMsg, Clear
    <2> QED BY <2>2, <2>3, <2>4
<1> QED BY <1>3, <1>4

\* Whatever keys the engine finds, a line in clear that it seals under the
\* default prefix is well sealed (attempt_encryption).
LEMMA EngineSealsLineWell ==
    ASSUME NEW own, NEW owner, NEW line, IsLine(line),
           NEW settings, settings.prefix = "+FiSH"
    PROVE  LET body == EngineSeals(own, settings, line)
           IN  body # line.body =>
                   WellSealed(owner, [line EXCEPT !.body = body, !.action = FALSE])
<1> DEFINE body == EngineSeals(own, settings, line)
           made1 == [line EXCEPT !.body = body, !.action = FALSE]
           to == Normal(line.to)
           text == line.body.text
<1>1. AsWritten(to) = AsWritten(line.to) /\ to.channel = line.to.channel
    BY NormalKeepsName DEF IsLine
<1>2. made1.cmd = line.cmd /\ made1.to = line.to /\ ~made1.action /\ made1.body = body
    BY DEF IsLine
<1> SUFFICES ASSUME body # line.body PROVE WellSealed(owner, made1) OBVIOUS
<1>3. ~(line.body.mark # "clear" \/ text \notin Mentions \/ line.cmd = "other")
    BY DEF EngineSeals
<1> HIDE DEF made1
<1>4. CASE line.cmd = "TOPIC"
    <2>1. body = SealUnder(own.channel, AsWritten(to), own, TRUE, "", text)
        BY <1>3, <1>4 DEF EngineSeals, SealsTopic
    <2> HIDE DEF body, to, text
    <2> QED BY <1>1, <1>2, <1>4, <2>1 DEF SealUnder, Mark, Sealed, Clear, WellSealed
<1>5. CASE line.cmd # "TOPIC" /\ to.channel
    <2>1. body = SealUnder(own.channel, AsWritten(to), own, FALSE, "+FiSH", text)
        BY <1>3, <1>5 DEF EngineSeals, SealsChannel
    <2> HIDE DEF body, to, text
    <2> QED BY <1>1, <1>2, <1>5, <2>1 DEF SealUnder, Mark, Sealed, Clear, WellSealed
<1>6. CASE line.cmd # "TOPIC" /\ ~to.channel
    <2>1. body = SealUnder(own.store, NoAD, own, FALSE, "+FiSH", text)
        BY <1>3, <1>6 DEF EngineSeals, SealsPrivate
    <2> HIDE DEF body, to, text
    <2> QED BY <1>1, <1>2, <1>6, <2>1 DEF SealUnder, Mark, Sealed, Clear, WellSealed
<1> QED BY <1>4, <1>5, <1>6

\* Whoever has the key of a well sealed line is shown its text, except for the
\* lines that ReadBack names (attempt_decryption, then the script's commands).
LEMMA WellSealedIsRead ==
    ASSUME NEW line, IsLine(line), WellSealed(conv.own, line),
           NEW peer, KeyOf(peer, line) = line.body.key,
           NEW settings, settings.incoming, settings.prefix = "+FiSH",
           line.body.mark # "clear", ReadBack(line)
    PROVE  Shown(peer, settings, line) = line.body.text
<1> DEFINE body == line.body
           to == line.to
           opened == EngineOpens(peer, settings, line)
<1>1. body.key # NoKey /\ body.text # Cut BY DEF WellSealed, ReadBack
<1>2. AsWritten(Normal(to)) = AsWritten(to) BY NormalKeepsName DEF IsLine
<1>3. SUFFICES \/ opened = body.text /\ ScriptOpens(peer, settings, line) \in {Failed, body.text}
               \/ opened = Failed /\ ScriptOpens(peer, settings, line) = body.text
    BY DEF Shown
<1>4. CASE body.mark = "+OK"
    <2>1. peer.legacy = body.key BY <1>4 DEF KeyOf
    <2>2. Open(peer.legacy, NoAD, body) = body.text BY <1>1, <1>4, <2>1 DEF Open
    <2>3. ~line.action BY <1>4 DEF ReadBack
    <2>4. opened = body.text
        BY <1>4, <2>2, <2>3 DEF EngineOpens, OpensTopic, OpensLegacy
    <2>5. ScriptOpens(peer, settings, line) = Failed BY <1>4 DEF ScriptOpens
    <2> QED BY <2>4, <2>5
<1>5. CASE body.mark = "+FiSH" /\ to.channel
    <2>1. peer.channel = body.key BY <1>5 DEF KeyOf
    <2>2. body.ad = AsWritten(to) BY <1>5 DEF WellSealed, ReadBack
    <2>3. Open(peer.channel, AsWritten(to), body) = body.text
        BY <1>1, <1>5, <2>1, <2>2 DEF Open
    <2>4. ScriptOpens(peer, settings, line) = body.text
        BY <1>2, <1>5, <2>3 DEF ScriptOpens, DecryptMsg
    <2>5. opened \in {Failed, OpensMessage(peer, line)} BY <1>5 DEF EngineOpens
    <2>6. ReaderKey(peer, to) = peer.channel BY <1>1, <1>5, <2>1 DEF ReaderKey
    <2>7. OpensMessage(peer, line) \in {Failed, body.text}
        BY <1>1, <1>5, <2>1, <2>6 DEF OpensMessage, Open
    <2> QED BY <2>4, <2>5, <2>7
<1>6. CASE body.mark = "+FiSH" /\ ~to.channel
    <2>1. peer.store = body.key BY <1>6 DEF KeyOf
    <2>2. body.ad = NoAD BY <1>6 DEF WellSealed
    <2>3. Open(peer.store, NoAD, body) = body.text BY <1>1, <1>6, <2>1, <2>2 DEF Open
    <2>4. ScriptOpens(peer, settings, line) = body.text
        BY <1>6, <2>3 DEF ScriptOpens, DecryptMsg
    <2>5. opened \in {Failed, OpensMessage(peer, line)} BY <1>6 DEF EngineOpens
    <2>6. OpensMessage(peer, line) = body.text BY <1>6, <2>3 DEF OpensMessage, ReaderKey
    <2> QED BY <2>4, <2>5, <2>6
<1>7. CASE body.mark = "+FCEP_TOPIC+"
    <2>1. line.cmd = "TOPIC" /\ ~line.action /\ body.ad = AsWritten(to) BY <1>7 DEF WellSealed
    <2>2. to.lower BY <1>7 DEF ReadBack
    <2>3. body.ad = LowerCase BY <2>1, <2>2 DEF AsWritten, LowerCase
    <2>4. ReaderKey(peer, to) = body.key BY <1>1, <1>7 DEF KeyOf, ReaderKey
    <2>5. opened = OpensTopic(peer, line) BY <1>7, <2>1 DEF EngineOpens
    <2>6. OpensTopic(peer, line) = body.text
        BY <1>1, <1>7, <2>3, <2>4 DEF OpensTopic, Open
    <2>7. ScriptOpens(peer, settings, line) = Failed BY <1>7 DEF ScriptOpens
    <2> QED BY <2>5, <2>6, <2>7
<1> QED BY <1>4, <1>5, <1>6, <1>7 DEF WellSealed, ReadBack

-----------------------------------------------------------------------------
(* The steps.                                                               *)

\* A line that is put out at the end leaves what was shown as it is.
LEMMA PutOut ==
    ASSUME PipelineInv, NEW line,
           IsLine(line), WellSealed(conv.own, line), NotPlain(line),
           lines' = Append(lines, line), OwnKeys', UNCHANGED <<conv, sent, socket, shown>>
    PROVE  PipelineInv'
<1>1. /\ IsSequence(lines') /\ Len(lines) \in Nat /\ Len(lines') = Len(lines) + 1
      /\ DOMAIN lines = 1 .. Len(lines) /\ DOMAIN lines' = 1 .. Len(lines) + 1
      /\ \A i \in 1 .. Len(lines) : lines'[i] = lines[i]
      /\ lines'[Len(lines) + 1] = line
    BY Appended DEF PipelineInv, InOrder
<1>2. DOMAIN shown = 1 .. Len(shown) /\ Len(shown) \in Nat
    BY DEF PipelineInv, InOrder, IsSequence
<1>3. DOMAIN shown \subseteq 1 .. Len(lines)
    BY <1>1, <1>2 DEF PipelineInv, InOrder, Tokens
<1>4. InOrder' BY <1>1 DEF PipelineInv, InOrder, IsSequence, Tokens
<1>5. LinesMade'
    <2> SUFFICES ASSUME NEW i \in DOMAIN lines'
                 PROVE  IsLine(lines'[i]) /\ WellSealed(conv.own, lines'[i]) /\ NotPlain(lines'[i])
        BY DEF LinesMade, IsLine, WellSealed, NotPlain
    <2>1. CASE i \in 1 .. Len(lines) BY <1>1, <2>1 DEF PipelineInv, LinesMade
    <2>2. CASE i = Len(lines) + 1 BY <1>1, <2>2
    <2> QED BY <1>1, <2>1, <2>2
<1>6. EngineSealsWell'
    BY DEF PipelineInv, EngineSealsWell, IsLine, WellSealed, socket
<1>7. ShownIsOpened'
    BY <1>1, <1>3 DEF PipelineInv, ShownIsOpened
<1>8. ClassifiedOnce' BY DEF PipelineInv, ClassifiedOnce, socket
<1> QED BY <1>4, <1>5, <1>6, <1>7, <1>8 DEF PipelineInv

\* The inductive invariant does not speak of the bounds or of what the engines have
\* seen, and hardly of the keys.
LEMMA Unmoved ==
    ASSUME PipelineInv, OwnKeys',
           UNCHANGED <<conv, lines, sent, state, ssl, counted, made, shown>>
    PROVE  PipelineInv'
<1>1. InOrder' BY DEF PipelineInv, InOrder, IsSequence, Tokens
<1>2. LinesMade' BY DEF PipelineInv, LinesMade, IsLine, WellSealed, NotPlain
<1>3. EngineSealsWell' BY DEF PipelineInv, EngineSealsWell, IsLine, WellSealed
<1>4. ShownIsOpened' BY DEF PipelineInv, ShownIsOpened
<1>5. ClassifiedOnce' BY DEF PipelineInv, ClassifiedOnce
<1> QED BY <1>1, <1>2, <1>3, <1>4, <1>5 DEF PipelineInv

\* The registration line is in clear and meant to be.
LEMMA InitInv == Init => PipelineInv
<1> SUFFICES ASSUME Init PROVE PipelineInv OBVIOUS
<1>1. lines = <<Registration>> /\ shown = <<>> /\ sent = 0 /\ made = {} /\ counted = FALSE
    BY DEF Init
<1>2. Len(lines) = 1 /\ DOMAIN lines = {1} /\ lines[1] = Registration
    BY <1>1
<1>3. IsSequence(lines)
    <2>1. lines \in Seq({Registration}) /\ ToSet(lines) = {Registration}
        BY <1>1, <1>2 DEF ToSet
    <2> QED BY <2>1 DEF IsSequence
<1>4. IsSequence(shown) /\ Len(shown) = 0 /\ DOMAIN shown = {}
    BY <1>1 DEF IsSequence
<1>5. InOrder BY <1>1, <1>2, <1>3, <1>4 DEF Init, InOrder, Tokens
<1>6. IsLine(Registration) /\ WellSealed(conv.own, Registration) /\ NotPlain(Registration)
    BY DEF IsLine, WellSealed, NotPlain, Registration, Clear, Target, Targets
<1>7. LinesMade BY <1>2, <1>6 DEF LinesMade
<1>8. OwnKeys BY ConversationAssumption DEF Init, OwnKeys
<1> QED BY <1>1, <1>4, <1>5, <1>7, <1>8
    DEF PipelineInv, EngineSealsWell, ShownIsOpened, ClassifiedOnce

\* An input is put out as the script seals it, in clear if it does not protect it,
\* or not at all (on INPUT).
LEMMA TypeKeeps ==
    ASSUME PipelineInv, NEW input \in conv.inputs, Type(input)
    PROVE  PipelineInv'
<1>1. input.to \in Targets
    BY ConversationAssumption DEF PipelineInv, InOrder
<1>2. UNCHANGED <<conv, sent, socket, shown>> BY DEF Type
<1>3. OwnKeys'
    <2>1. keys' = keys \/ keys' = [keys EXCEPT !.store = NoKey] BY DEF Type
    <2> QED BY <1>2, <2>1 DEF PipelineInv, OwnKeys
<1> DEFINE clear(text) == LineOf(input, Clear(text))
           body == ScriptSeals(keys, input.to, input.text)
<1>4. \A text : IsLine(clear(text)) /\ WellSealed(conv.own, clear(text))
    BY <1>1 DEF IsLine, WellSealed, LineOf, Clear
<1>5. CASE ~Protects(input) /\ lines' = Append(lines, clear(input.text))
    <2>1. NotPlain(clear(input.text)) BY <1>5 DEF NotPlain, LineOf
    <2> QED BY <1>2, <1>3, <1>4, <1>5, <2>1, PutOut
<1>6. CASE lines' = Answered(input)
    <2>1. CASE body.mark = "clear"
        <3>1. lines' = lines BY <1>6, <2>1 DEF Answered
        <3> QED BY <1>2, <1>3, <3>1, Unmoved DEF socket
    <2>2. CASE body.mark # "clear"
        <3>1. lines' = Append(lines, LineOf(input, body)) BY <1>6, <2>2 DEF Answered
        <3>2. WellSealed(conv.own, LineOf(input, body))
            <4>1. WellSealed(keys, LineOf(input, body)) BY <1>1, ScriptSealsWell
            <4>2. keys.channel = conv.own.channel BY DEF PipelineInv, OwnKeys
            <4> HIDE DEF body
            <4> QED BY <4>1, <4>2 DEF WellSealed
        <3>3. IsLine(LineOf(input, body)) BY <1>1 DEF IsLine, LineOf
        <3>4. NotPlain(LineOf(input, body)) BY <2>2 DEF NotPlain, LineOf
        <3> HIDE DEF body
        <3> QED BY <1>2, <1>3, <3>1, <3>2, <3>3, <3>4, PutOut
    <2> QED BY <2>1, <2>2
<1>7. CASE lines' \in {lines, Append(lines, clear(ErrorText))}
    <2>1. CASE lines' = lines BY <1>2, <1>3, <2>1, Unmoved DEF socket
    <2>2. CASE lines' = Append(lines, clear(ErrorText))
        <3>1. NotPlain(clear(ErrorText)) BY DEF NotPlain, LineOf, Clear
        <3> QED BY <1>2, <1>3, <1>4, <2>2, <3>1, PutOut
    <2> QED BY <1>7, <2>1, <2>2
<1> QED BY <1>5, <1>6, <1>7 DEF Type

\* Ageing touches a key only.
LEMMA AgeKeeps == ASSUME PipelineInv, Age PROVE PipelineInv'
BY Unmoved DEF Age, socket, PipelineInv, OwnKeys

\* connect() is hooked before anything is classified.
LEMMA ConnectKeeps == ASSUME PipelineInv, HookedConnect PROVE PipelineInv'
<1>1. InOrder' BY DEF PipelineInv, InOrder, IsSequence, Tokens, HookedConnect, chat
<1>2. LinesMade'
    BY DEF PipelineInv, LinesMade, IsLine, WellSealed, NotPlain, HookedConnect, chat
<1>3. EngineSealsWell' BY DEF PipelineInv, EngineSealsWell, IsLine, WellSealed, HookedConnect
<1>4. ShownIsOpened' BY DEF PipelineInv, ShownIsOpened, HookedConnect, chat
<1>5. ClassifiedOnce' BY DEF ClassifiedOnce, HookedConnect
<1>6. OwnKeys' BY DEF PipelineInv, OwnKeys, HookedConnect, chat
<1> QED BY <1>1, <1>2, <1>3, <1>4, <1>5, <1>6 DEF PipelineInv

\* What the engine makes of the lines that it is passed.
LEMMA EngineMadeWell ==
    ASSUME PipelineInv, conv.prefix = "+FiSH", NEW whole \in SUBSET DOMAIN lines
    PROVE  \A line \in EngineMade(whole) : IsLine(line) /\ WellSealed(conv.own, line)
<1> DEFINE usable == IF aged THEN [keys EXCEPT !.store = NoKey] ELSE keys
           settings == [prefix |-> conv.prefix]
           sealed(i) == EngineSeals(usable, settings, lines[i])
<1> SUFFICES ASSUME NEW line \in EngineMade(whole) PROVE IsLine(line) /\ WellSealed(conv.own, line)
    OBVIOUS
<1>1. PICK i \in DOMAIN lines :
          /\ sealed(i) # lines[i].body
          /\ line = [lines[i] EXCEPT !.body = sealed(i), !.action = FALSE]
    BY Zenon DEF EngineMade
<1>2. IsLine(lines[i]) /\ WellSealed(conv.own, lines[i]) BY DEF PipelineInv, LinesMade
<1>3. settings.prefix = "+FiSH" OBVIOUS
<1>4. IsLine(line) BY <1>1, <1>2 DEF IsLine
<1> HIDE DEF usable, settings
<1> QED BY <1>1, <1>2, <1>3, <1>4, EngineSealsLineWell

\* A chunk is classified if it is the first, and its lines go to the engines; then
\* send() takes some of it (on_sending, hooked_send).
LEMMA SendKeeps ==
    ASSUME PipelineInv, NEW n \in 1 .. (Tokens - sent), NEW m \in 0 .. n, HookedSend(n, m)
    PROVE  PipelineInv'
<1>1. UNCHANGED <<conv, keys, lines, shown>> /\ sent' = sent + m /\ sent + n <= Tokens
    BY DEF HookedSend, chat
<1>2. Len(lines) \in Nat /\ Len(shown) \in Nat
    BY DEF PipelineInv, InOrder, IsSequence
<1>3. InOrder'
    <2>1. IsSequence(lines)' /\ IsSequence(shown)' /\ (conv \in Conversations)'
        BY <1>1 DEF PipelineInv, InOrder, IsSequence
    <2>2. Tokens' = Tokens /\ Tokens \in Nat BY <1>1, <1>2 DEF Tokens
    <2>3. sent' \in Nat /\ sent' <= Tokens /\ 4 * Len(shown) <= sent'
        BY <1>1, <1>2, <2>2 DEF PipelineInv, InOrder
    <2> QED BY <1>1, <2>1, <2>2, <2>3 DEF InOrder
<1>4. LinesMade' BY <1>1 DEF PipelineInv, LinesMade, IsLine, WellSealed, NotPlain
<1>5. EngineSealsWell'
    <2>1. \/ made' = made
          \/ \E whole \in SUBSET DOMAIN lines : made' = made \cup EngineMade(whole)
        BY DEF HookedSend, OnSending, WholeLines, socket
    <2>2. SUFFICES ASSUME conv.prefix = "+FiSH", NEW line \in made'
                       PROVE  IsLine(line) /\ WellSealed(conv.own, line)
        BY <1>1 DEF EngineSealsWell, IsLine, WellSealed
    <2>3. CASE line \in made BY <2>2, <2>3 DEF PipelineInv, EngineSealsWell
    <2>4. CASE line \notin made
        <3>1. PICK whole \in SUBSET DOMAIN lines : line \in EngineMade(whole) BY <2>1, <2>2, <2>4
        <3> QED BY <2>2, <3>1, EngineMadeWell
    <2> QED BY <2>3, <2>4
<1>6. ShownIsOpened' BY <1>1 DEF PipelineInv, ShownIsOpened
<1>7. ClassifiedOnce'
    <2>1. CASE ssl BY <1>1, <2>1 DEF PipelineInv, ClassifiedOnce, HookedSend, socket
    <2>2. CASE ~ssl
        <3>1. OnSending([j \in 1 .. n |-> sent + j]) BY <2>2 DEF HookedSend
        <3>2. counted' /\ state' = (IF counted THEN state ELSE Detected.state)
                       /\ ssl' = (IF counted THEN ssl ELSE Detected.ssl)
            BY <3>1 DEF OnSending
        <3> QED BY <1>1, <3>2 DEF PipelineInv, ClassifiedOnce, Detected
    <2> QED BY <2>1, <2>2
<1>8. OwnKeys' BY <1>1 DEF PipelineInv, OwnKeys
<1> QED BY <1>3, <1>4, <1>5, <1>6, <1>7, <1>8 DEF PipelineInv

\* The reader's client opens the next line.
LEMMA ReadKeeps == ASSUME PipelineInv, Read PROVE PipelineInv'
<1> DEFINE i == Len(shown) + 1
           text == Shown(conv.peer, conv.reader, lines[i])
<1>1. /\ 4 * i <= sent /\ shown' = Append(shown, text)
      /\ UNCHANGED <<conv, keys, lines, sent, state, ssl, counted, made>>
    BY DEF Read, chat, socket
<1> HIDE DEF text
<1>2. /\ IsSequence(shown') /\ Len(shown) \in Nat /\ Len(shown') = i
      /\ DOMAIN shown = 1 .. Len(shown) /\ DOMAIN shown' = 1 .. i
      /\ \A j \in 1 .. Len(shown) : shown'[j] = shown[j]
      /\ shown'[i] = text
    BY <1>1, Appended DEF PipelineInv, InOrder
<1>3. InOrder' BY <1>1, <1>2 DEF PipelineInv, InOrder, IsSequence, Tokens
<1>4. LinesMade' BY <1>1 DEF PipelineInv, LinesMade, IsLine, WellSealed, NotPlain
<1>5. EngineSealsWell' BY <1>1 DEF PipelineInv, EngineSealsWell, IsLine, WellSealed
<1>6. ShownIsOpened'
    <2> SUFFICES ASSUME NEW j \in DOMAIN shown'
                 PROVE  shown'[j] = Shown(conv.peer, conv.reader, lines[j])
        BY <1>1 DEF ShownIsOpened
    <2>1. CASE j \in 1 .. Len(shown)
        BY <1>2, <2>1 DEF PipelineInv, ShownIsOpened
    <2>2. CASE j = i BY <1>2, <2>2 DEF text
    <2> QED BY <1>2, <2>1, <2>2
<1>7. ClassifiedOnce' BY <1>1 DEF PipelineInv, ClassifiedOnce
<1>8. OwnKeys' BY <1>1 DEF PipelineInv, OwnKeys
<1> QED BY <1>3, <1>4, <1>5, <1>6, <1>7, <1>8 DEF PipelineInv

\* What is put out, opened or connected does not touch the buffer.
LEMMA BufferUnmoved ==
    ASSUME BufferInv, UNCHANGED <<conv, sent, ssl, outgoing, seen, bad>>,
           typed' \in 0 .. MaxTyped, Len(lines') <= typed' + 1
    PROVE  BufferInv'
<1>1. BufferTyped' BY DEF BufferInv, BufferTyped
<1>2. ASSUME ~conv.tls
      PROVE  (BufferSent /\ LineInBuffer /\ LastInBuffer /\ SentNotInBuffer /\ SeenOnce)'
    <2>1. BufferSent' BY <1>2 DEF BufferInv, BufferSent
    <2>2. LineInBuffer' BY <1>2 DEF BufferInv, LineInBuffer, Clean
    <2>3. LastInBuffer' BY <1>2 DEF BufferInv, LastInBuffer, Part
    <2>4. SentNotInBuffer' BY <1>2 DEF BufferInv, SentNotInBuffer, SentLine, Clean
    <2>5. SeenOnce' BY <1>2 DEF BufferInv, SeenOnce, SentLine, LaterLine, Clean
    <2> QED BY <2>1, <2>2, <2>3, <2>4, <2>5
<1> QED BY <1>1, <1>2 DEF BufferInv

\* The buffer starts empty.
LEMMA InitBuffer == Init => BufferInv
<1> SUFFICES ASSUME Init PROVE BufferInv OBVIOUS
<1>1. /\ sent = 0 /\ outgoing = <<>> /\ bad = {} /\ typed = 0 /\ ssl = FALSE
      /\ seen = [i \in 1 .. MaxTyped + 1 |-> 0]
      /\ Len(lines) = 1 /\ MaxTyped \in Nat
    BY BoundsAssumption DEF Init
<1>2. BufferTyped BY <1>1 DEF BufferTyped
<1>3. BufferSent /\ LastInBuffer /\ SentNotInBuffer
    BY <1>1 DEF BufferSent, LastInBuffer, SentNotInBuffer
<1>4. LineInBuffer BY <1>1 DEF LineInBuffer
<1>5. SeenOnce BY <1>1 DEF SeenOnce, SentLine, LaterLine
<1> QED BY <1>2, <1>3, <1>4, <1>5 DEF BufferInv

\* An input adds at most one line (on INPUT).
LEMMA TypeKeepsBuffer ==
    ASSUME PipelineInv, BufferInv, NEW input \in conv.inputs, Type(input)
    PROVE  BufferInv'
<1>1. \/ lines' = lines
      \/ \E line : lines' = Append(lines, line)
    BY DEF Type, Answered
<1>2. Len(lines) \in Nat /\ Len(lines') <= Len(lines) + 1
    <2>1. CASE lines' = lines BY <2>1 DEF PipelineInv, InOrder, IsSequence
    <2>2. ASSUME NEW line, lines' = Append(lines, line)
          PROVE  Len(lines) \in Nat /\ Len(lines') <= Len(lines) + 1
        BY <2>2, Appended DEF PipelineInv, InOrder
    <2> QED BY <1>1, <2>1, <2>2
<1>3. typed' = typed + 1 /\ typed < MaxTyped /\ UNCHANGED <<conv, sent, ssl, outgoing, seen, bad>>
    BY DEF Type, socket
<1>4. typed' \in 0 .. MaxTyped /\ Len(lines') <= typed' + 1
    <2>1. typed \in 0 .. MaxTyped /\ Len(lines) <= typed + 1 BY DEF BufferInv, BufferTyped
    <2>2. Len(lines') \in Nat
        <3>1. CASE lines' = lines BY <1>2, <3>1
        <3>2. ASSUME NEW line, lines' = Append(lines, line) PROVE Len(lines') \in Nat
            BY <3>2, Appended DEF PipelineInv, InOrder
        <3> QED BY <1>1, <3>1, <3>2
    <2> QED BY <1>2, <1>3, <2>1, <2>2, BoundsAssumption
<1> QED BY <1>3, <1>4, BufferUnmoved

\* A chunk of a connection in clear goes through the buffer, if it is UTF-8
\* (hooked_send, on_sending).
LEMMA SendKeepsBuffer ==
    ASSUME PipelineInv, BufferInv,
           NEW n \in 1 .. (Tokens - sent), NEW m \in 0 .. n, HookedSend(n, m)
    PROVE  BufferInv'
<1> DEFINE chunk == [j \in 1 .. n |-> sent + j]
<1>1. /\ sent' = sent + m /\ sent + n <= Tokens /\ UNCHANGED <<conv, lines, typed>>
      /\ ssl => UNCHANGED socket
      /\ ~ssl => /\ OnSending(chunk)
                 /\ bad' = IF m < n \/ ~Utf8(chunk) THEN bad \cup ToSet(chunk) ELSE bad
    BY DEF HookedSend, chat
<1>2. /\ n \in Nat \ {0} /\ sent \in Nat /\ sent <= Tokens
      /\ DOMAIN lines = 1 .. Len(lines) /\ Len(lines) \in Nat
    BY DEF PipelineInv, InOrder, IsSequence, Tokens
<1>3. /\ ssl' = IF ssl \/ counted THEN ssl ELSE conv.tls
      /\ \/ UNCHANGED <<outgoing, seen>>
         \/ /\ Utf8(chunk)
            /\ outgoing' = Remaining(Buffer(n))
            /\ seen' = [i \in DOMAIN seen |->
                            seen[i] + (IF i \in WholeLines(Buffer(n)) THEN 1 ELSE 0)]
    BY <1>1 DEF OnSending, Detected, Buffer, socket
<1>4. BufferTyped'
    <2>1. sent' \in Nat /\ typed' \in 0 .. MaxTyped /\ Len(lines') <= typed' + 1
        BY <1>1, <1>2 DEF BufferInv, BufferTyped
    <2>2. ssl' => conv'.tls
        <3>1. (ssl => conv.tls) /\ conv' = conv BY <1>1 DEF BufferInv, BufferTyped
        <3>2. CASE ssl \/ counted BY <1>3, <3>1, <3>2
        <3>3. CASE ~(ssl \/ counted) BY <1>3, <3>1, <3>3
        <3> QED BY <3>2, <3>3
    <2>3. outgoing' \in Seq(Nat \ {0})
        <3>1. CASE outgoing' = Remaining(Buffer(n))
            <4>1. Buffer(n) \in Seq(Nat \ {0}) BY <1>2, Pushed DEF BufferInv, BufferTyped, Buffer
            <4> QED BY <3>1, <4>1, Kept
        <3> QED BY <1>3, <3>1 DEF BufferInv, BufferTyped
    <2>4. seen' \in [1 .. MaxTyped + 1 -> Nat]
        <3>1. seen \in [1 .. MaxTyped + 1 -> Nat] BY DEF BufferInv, BufferTyped
        <3> DEFINE more(i) == seen[i] + (IF i \in WholeLines(Buffer(n)) THEN 1 ELSE 0)
        <3>2. \A i \in 1 .. MaxTyped + 1 : more(i) \in Nat BY <3>1
        <3>3. UNCHANGED seen \/ seen' = [i \in DOMAIN seen |-> more(i)] BY <1>3
        <3> HIDE DEF more
        <3> QED BY <3>1, <3>2, <3>3
    <2> QED BY <2>1, <2>2, <2>3, <2>4 DEF BufferTyped
<1>5. ASSUME ~conv.tls
      PROVE  (BufferSent /\ LineInBuffer /\ LastInBuffer /\ SentNotInBuffer /\ SeenOnce)'
    <2>1. /\ BufferTyped /\ BufferSent /\ LineInBuffer /\ LastInBuffer
          /\ SentNotInBuffer /\ SeenOnce /\ ~ssl
        BY <1>5 DEF BufferInv, BufferTyped
    <2>2. bad' = IF m < n \/ ~Utf8(chunk) THEN bad \cup ToSet(chunk) ELSE bad
        BY <1>1, <2>1
    <2>3. ToSet(chunk) = (sent + 1) .. (sent + n)
        <3>1. ToSet(chunk) = {sent + j : j \in 1 .. n} BY DEF ToSet
        <3>2. \A t \in (sent + 1) .. (sent + n) : t - sent \in 1 .. n /\ t = sent + (t - sent)
            BY <1>2
        <3>3. \A j \in 1 .. n : sent + j \in (sent + 1) .. (sent + n) BY <1>2
        <3> QED BY <3>1, <3>2, <3>3
    <2> HIDE DEF chunk
    <2>4. \A t \in bad : t \in bad' BY <2>2
    <2>5. CASE m = n /\ Utf8(chunk)
        <3>1. bad' = bad BY <2>2, <2>5
        <3>2. OnSending(chunk) BY <1>1, <2>1
        <3>3. /\ outgoing' = Remaining(Buffer(n))
              /\ seen' = [i \in DOMAIN seen |->
                              seen[i] + (IF i \in WholeLines(Buffer(n)) THEN 1 ELSE 0)]
            BY <2>5, <3>2 DEF OnSending, Buffer, chunk
        <3>4. (BufferSent /\ LineInBuffer /\ LastInBuffer /\ SentNotInBuffer)'
            BY <1>1, <1>2, <2>1, <2>5, <3>1, <3>3, WholeChunkKeeps
        <3>5. SeenOnce' BY <1>1, <1>2, <2>1, <2>5, <3>1, <3>3, PassedKeepsSeen
        <3> QED BY <3>4, <3>5
    <2>6. CASE m < n \/ ~Utf8(chunk)
        <3>1. \A t \in (sent + 1) .. (sent + n) : t \in bad' BY <2>2, <2>3, <2>6
        <3>2. outgoing' = outgoing \/ (m < n /\ outgoing' = Remaining(Buffer(n)))
            BY <1>3, <2>6
        <3>3. (BufferSent /\ LineInBuffer /\ LastInBuffer /\ SentNotInBuffer)'
            BY <1>1, <1>2, <2>1, <2>4, <3>1, <3>2, BrokenChunkKeeps
        <3>4. SeenOnce'
            <4>1. CASE UNCHANGED seen
                <5>1. ASSUME NEW i \in 1 .. MaxTyped + 1
                      PROVE  /\ SentLine(i)' => SentLine(i)
                             /\ LaterLine(i)' => LaterLine(i)
                    <6>1. i \in Int /\ m \in Nat /\ sent' = sent + m BY <1>1
                    <6>2. Clean(4 * i - 5, 4 * i)' => Clean(4 * i - 5, 4 * i)
                        BY <2>4 DEF Clean
                    <6>3. Clean(4 * i - 5, 4 * i)' => 4 * i \notin bad' BY <6>1 DEF Clean
                    <6>4. 4 * i \notin bad' /\ 4 * i <= sent + m => 4 * i <= sent
                        BY <1>2, <3>1, <6>1
                    <6>5. SentLine(i)' => SentLine(i)
                        BY <6>1, <6>2, <6>3, <6>4 DEF SentLine
                    <6>6. LaterLine(i)' => LaterLine(i)
                        BY <1>2, <6>1, <6>2 DEF LaterLine
                    <6> QED BY <6>5, <6>6
                <5> QED BY <2>1, <4>1, <5>1 DEF SeenOnce
            <4>2. CASE seen' = [i \in DOMAIN seen |->
                              seen[i] + (IF i \in WholeLines(Buffer(n)) THEN 1 ELSE 0)]
                BY <1>1, <1>2, <2>1, <2>4, <3>1, <4>2, PassedKeepsSeen
            <4> QED BY <1>3, <4>1, <4>2
        <3> QED BY <3>3, <3>4
    <2> QED BY <2>5, <2>6
<1> QED BY <1>1, <1>4, <1>5 DEF BufferInv

-----------------------------------------------------------------------------
(* The types.                                                               *)

\* Lines are only added, and one in clear is added as its text.
LEMMA LinesTyped ==
    ASSUME PipelineInv, BufferTyped, TypedTokens, ClearIsText, UNCHANGED <<outgoing, bad>>,
           \/ lines' = lines
           \/ \E line : /\ lines' = Append(lines, line)
                        /\ line.body.mark = "clear" => line.body = Clear(line.body.text)
    PROVE  TypedTokens' /\ ClearIsText'
<1>1. CASE lines' = lines BY <1>1 DEF TypedTokens, ClearIsText, Tokens
<1>2. ASSUME NEW line, lines' = Append(lines, line),
             line.body.mark = "clear" => line.body = Clear(line.body.text)
      PROVE  TypedTokens' /\ ClearIsText'
    <2>1. /\ Len(lines) \in Nat /\ Len(lines') = Len(lines) + 1
          /\ DOMAIN lines = 1 .. Len(lines) /\ DOMAIN lines' = 1 .. Len(lines) + 1
          /\ \A i \in 1 .. Len(lines) : lines'[i] = lines[i]
          /\ lines'[Len(lines) + 1] = line
        BY <1>2, Appended DEF PipelineInv, InOrder
    <2>2. Tokens \in Nat /\ Tokens' = Tokens + 4 BY <2>1 DEF Tokens
    <2>3. TypedTokens'
        <3>1. Len(lines') > 0 BY <2>1
        <3>2. ASSUME NEW j \in 1 .. Len(outgoing) PROVE outgoing[j] <= Tokens'
            <4>1. outgoing[j] <= Tokens BY DEF TypedTokens
            <4>2. outgoing[j] \in Nat BY DEF BufferTyped
            <4> QED BY <2>2, <4>1, <4>2
        <3>3. bad \subseteq 1 .. Tokens' BY <2>2 DEF TypedTokens
        <3> QED BY <3>1, <3>2, <3>3 DEF TypedTokens
    <2>4. ClearIsText'
        <3> SUFFICES ASSUME NEW i \in DOMAIN lines', lines'[i].body.mark = "clear"
                     PROVE  lines'[i].body = Clear(lines'[i].body.text)
            BY DEF ClearIsText, Clear
        <3>1. CASE i \in 1 .. Len(lines) BY <2>1, <3>1 DEF ClearIsText
        <3>2. CASE i = Len(lines) + 1 BY <1>2, <2>1, <3>2
        <3> QED BY <2>1, <3>1, <3>2
    <2> QED BY <2>3, <2>4
<1> QED BY <1>1, <1>2

\* A connection starts with the registration line, in clear.
LEMMA InitTypes == Init => TypesInv
<1> SUFFICES ASSUME Init PROVE TypesInv OBVIOUS
<1>1. TypedSocket
    <2>1. keys.store = conv.own.store /\ faults = 0 /\ state = "Initializing" BY DEF Init
    <2>2. aged \in BOOLEAN /\ ssl \in BOOLEAN /\ counted \in BOOLEAN BY Zenon DEF Init
    <2>3. faults \in 0 .. MaxFaults BY <2>1, BoundsAssumption
    <2> QED BY <2>1, <2>2, <2>3 DEF TypedSocket
<1>2. lines = <<Registration>> /\ outgoing = <<>> /\ bad = {} /\ made = {} BY DEF Init
<1>3. Len(lines) = 1 /\ DOMAIN lines = {1} /\ lines[1].body = Clear("NICK")
    BY <1>2 DEF Registration
<1>4. TypedTokens BY <1>2, <1>3 DEF TypedTokens
<1>5. ClearIsText BY <1>3 DEF ClearIsText, Clear
<1> QED BY <1>1, <1>2, <1>4, <1>5 DEF TypesInv, MadeIsSealed

\* What is put out in clear is the input's text or that of the error (on INPUT).
LEMMA TypeKeepsTypes ==
    ASSUME PipelineInv, BufferInv, TypesInv, NEW input \in conv.inputs, Type(input)
    PROVE  TypesInv'
<1>1. UNCHANGED <<conv, socket, faults>> BY DEF Type
<1>2. TypedSocket'
    <2>1. \/ UNCHANGED <<keys, aged>>
          \/ keys' = [keys EXCEPT !.store = NoKey] /\ aged' = FALSE
        BY DEF Type
    <2>2. keys'.store \in {conv.own.store, NoKey}
        BY <2>1 DEF TypesInv, TypedSocket, PipelineInv, OwnKeys
    <2>3. aged' \in BOOLEAN BY <2>1 DEF TypesInv, TypedSocket
    <2> QED BY <1>1, <2>2, <2>3 DEF TypesInv, TypedSocket, socket
<1> DEFINE body == ScriptSeals(keys, input.to, input.text)
<1>3. \/ lines' = lines
      \/ \E line : /\ lines' = Append(lines, line)
                   /\ line.body.mark = "clear" => line.body = Clear(line.body.text)
    <2>1. \A text : LineOf(input, Clear(text)).body = Clear(Clear(text).text)
        BY DEF LineOf, Clear
    <2>2. \A text : Clear(text).text = text BY DEF Clear
    <2>3. lines' = Answered(input) =>
              \/ lines' = lines
              \/ lines' = Append(lines, LineOf(input, body)) /\ body.mark # "clear"
        BY DEF Answered
    <2>4. LineOf(input, body).body = body BY DEF LineOf
    <2>5. \/ lines' = lines
          \/ \E text : lines' = Append(lines, LineOf(input, Clear(text)))
          \/ lines' = Append(lines, LineOf(input, body)) /\ body.mark # "clear"
        BY <2>3 DEF Type
    <2> HIDE DEF body
    <2> QED BY <2>1, <2>2, <2>4, <2>5
<1>4. TypedTokens' /\ ClearIsText' BY <1>1, <1>3, LinesTyped DEF TypesInv, BufferInv, socket
<1> QED BY <1>1, <1>2, <1>4 DEF TypesInv, MadeIsSealed, socket

\* The engine's result differs from the line only if it is sealed, and an action
\* is sealed as a message (attempt_encryption).
LEMMA EngineMadeSealed ==
    ASSUME PipelineInv, ClearIsText, NEW whole \in SUBSET DOMAIN lines
    PROVE  \A line \in EngineMade(whole) : line.body.mark # "clear" /\ ~line.action
<1> DEFINE usable == IF aged THEN [keys EXCEPT !.store = NoKey] ELSE keys
           settings == [prefix |-> conv.prefix]
           sealed(i) == EngineSeals(usable, settings, lines[i])
<1> SUFFICES ASSUME NEW line \in EngineMade(whole) PROVE line.body.mark # "clear" /\ ~line.action
    OBVIOUS
<1>1. PICK i \in DOMAIN lines :
          /\ sealed(i) # lines[i].body
          /\ line = [lines[i] EXCEPT !.body = sealed(i), !.action = FALSE]
    BY Zenon DEF EngineMade
<1>2. IsLine(lines[i]) BY DEF PipelineInv, LinesMade
<1>3. line.body = sealed(i) /\ ~line.action BY <1>1, <1>2 DEF IsLine
<1>4. settings.prefix # "clear" BY ConversationAssumption DEF PipelineInv, InOrder
<1>5. lines[i].body.mark = "clear" /\ sealed(i) # Clear(lines[i].body.text)
    BY <1>1 DEF ClearIsText, EngineSeals
<1>6. ASSUME NEW key, NEW ad, NEW topic \in BOOLEAN, NEW prefix, NEW text, prefix # "clear"
      PROVE  LET result == SealUnder(key, ad, usable, topic, prefix, text)
             IN  result = Clear(text) \/ result.mark # "clear"
    BY <1>6 DEF SealUnder, Mark, Sealed
<1> HIDE DEF usable, settings
<1>7. \E key, ad, prefix : \E topic \in BOOLEAN :
          prefix # "clear" /\ sealed(i) = SealUnder(key, ad, usable, topic, prefix, lines[i].body.text)
    <2>1. "" # "clear" OBVIOUS
    <2> QED BY <1>1, <1>4, <2>1 DEF EngineSeals, SealsTopic, SealsChannel, SealsPrivate
<1> HIDE DEF sealed
<1> QED BY <1>3, <1>5, <1>6, <1>7

\* The buffer and the history are given tokens of this chunk (hooked_send, on_sending).
LEMMA SendKeepsTypes ==
    ASSUME PipelineInv, BufferInv, TypesInv,
           NEW n \in 1 .. (Tokens - sent), NEW m \in 0 .. n, HookedSend(n, m)
    PROVE  TypesInv'
<1> DEFINE chunk == [j \in 1 .. n |-> sent + j]
<1>1. /\ sent + n <= Tokens /\ UNCHANGED <<conv, keys, aged, lines>>
      /\ m < n => faults < MaxFaults
      /\ faults' = IF m < n THEN faults + 1 ELSE faults
      /\ ssl => UNCHANGED socket
      /\ ~ssl => /\ OnSending(chunk)
                 /\ bad' = IF m < n \/ ~Utf8(chunk) THEN bad \cup ToSet(chunk) ELSE bad
    BY DEF HookedSend, chat
<1>2. n \in Nat \ {0} /\ sent \in Nat /\ Tokens \in Nat /\ Tokens' = Tokens
    BY <1>1 DEF PipelineInv, InOrder, IsSequence, Tokens
<1>3. TypedSocket'
    <2>1. faults' \in 0 .. MaxFaults BY <1>1, BoundsAssumption DEF TypesInv, TypedSocket
    <2>2. (aged \in BOOLEAN)' /\ (keys.store \in {conv.own.store, NoKey})'
        BY <1>1 DEF TypesInv, TypedSocket
    <2>3. \/ UNCHANGED <<ssl, counted, state>>
          \/ /\ counted' /\ state' = (IF counted THEN state ELSE Detected.state)
             /\ ssl' = (IF counted THEN ssl ELSE Detected.ssl)
        BY <1>1 DEF OnSending, socket
    <2>4. conv.tls \in BOOLEAN BY ConversationAssumption DEF PipelineInv, InOrder
    <2>5. /\ ssl' \in BOOLEAN
          /\ state' \in {"Initializing", "TlsHandshake", "Connected", "Closed"}
        BY <2>3, <2>4 DEF TypesInv, TypedSocket, Detected
    <2>6. counted' \in BOOLEAN
        <3>1. counted' = counted \/ counted' = TRUE BY <1>1 DEF OnSending, socket
        <3> QED BY <3>1 DEF TypesInv, TypedSocket
    <2> QED BY <2>1, <2>2, <2>5, <2>6 DEF TypedSocket
<1>4. ToSet(chunk) \subseteq 1 .. Tokens BY <1>1, <1>2 DEF ToSet
<1>5. bad' \subseteq 1 .. Tokens
    BY <1>1, <1>4 DEF TypesInv, TypedTokens, socket
<1>6. \A j \in 1 .. Len(outgoing') : outgoing'[j] <= Tokens
    <2>1. outgoing' = outgoing \/ outgoing' = Remaining(Buffer(n))
        BY <1>1 DEF OnSending, Buffer, socket
    <2>2. CASE outgoing' = outgoing BY <2>2 DEF TypesInv, TypedTokens
    <2>3. CASE outgoing' = Remaining(Buffer(n))
        <3>1. /\ Buffer(n) \in Seq(Nat \ {0})
              /\ Len(outgoing) \in Nat /\ Len(Buffer(n)) = Len(outgoing) + n
              /\ \A j \in 1 .. Len(outgoing) : Buffer(n)[j] = outgoing[j]
              /\ \A j \in (Len(outgoing) + 1) .. (Len(outgoing) + n) :
                     Buffer(n)[j] = sent + j - Len(outgoing)
            BY <1>2, Pushed DEF BufferInv, BufferTyped, Buffer
        <3>2. ASSUME NEW j \in 1 .. Len(Buffer(n)) PROVE Buffer(n)[j] <= Tokens
            <4>1. CASE j \in 1 .. Len(outgoing) BY <3>1, <4>1 DEF TypesInv, TypedTokens
            <4>2. CASE j \in (Len(outgoing) + 1) .. (Len(outgoing) + n)
                <5>1. Buffer(n)[j] = sent + j - Len(outgoing) BY <3>1, <4>2
                <5> QED BY <1>1, <1>2, <3>1, <4>2, <5>1
            <4> QED BY <1>2, <3>1, <4>1, <4>2
        <3>3. PICK k \in 0 .. Len(Buffer(n)) :
                  /\ Len(Remaining(Buffer(n))) = Len(Buffer(n)) - k
                  /\ \A j \in 1 .. Len(Buffer(n)) - k : Remaining(Buffer(n))[j] = Buffer(n)[k + j]
            BY <3>1, Kept
        <3>4. \A j \in 1 .. Len(Buffer(n)) - k : k + j \in 1 .. Len(Buffer(n)) BY <3>1
        <3> QED BY <2>3, <3>2, <3>3, <3>4
    <2> QED BY <2>1, <2>2, <2>3
<1>7. TypedTokens' BY <1>1, <1>2, <1>5, <1>6 DEF TypesInv, TypedTokens
<1>8. ClearIsText' BY <1>1 DEF TypesInv, ClearIsText, Clear
<1>9. MadeIsSealed'
    <2>1. \/ made' = made
          \/ \E whole \in SUBSET DOMAIN lines : made' = made \cup EngineMade(whole)
        BY DEF HookedSend, OnSending, WholeLines, socket
    <2>2. ASSUME NEW whole \in SUBSET DOMAIN lines, made' = made \cup EngineMade(whole)
          PROVE  MadeIsSealed'
        BY <2>2, EngineMadeSealed DEF TypesInv, MadeIsSealed
    <2> QED BY <2>1, <2>2 DEF TypesInv, MadeIsSealed
<1> QED BY <1>3, <1>7, <1>8, <1>9 DEF TypesInv

\* A step that touches no line and no buffer.
LEMMA TypesUnmoved ==
    ASSUME TypesInv, TypedSocket', UNCHANGED <<lines, outgoing, bad, made>>
    PROVE  TypesInv'
BY DEF TypesInv, TypedTokens, ClearIsText, MadeIsSealed, Tokens

\* All of it gives the types.
LEMMA TypesFollow == PipelineInv /\ BufferInv /\ TypesInv => TypeOK
<1> SUFFICES ASSUME PipelineInv, BufferInv, TypesInv PROVE TypeOK OBVIOUS
<1>1. keys = [conv.own EXCEPT !.store = keys.store]
    <2>1. conv.own = [store |-> conv.own.store, channel |-> conv.own.channel,
                      legacy |-> conv.own.legacy]
        BY ConversationAssumption DEF PipelineInv, InOrder
    <2>2. keys = [store |-> keys.store, channel |-> conv.own.channel, legacy |-> conv.own.legacy]
        BY DEF PipelineInv, OwnKeys
    <2> DEFINE own == conv.own
               store == keys.store
    <2>3. [own EXCEPT !.store = store]
              = [store |-> store, channel |-> own.channel, legacy |-> own.legacy]
        <3> HIDE DEF store
        <3> QED BY <2>1
    <2> QED BY <2>2, <2>3
<1>2. Len(lines) \in Nat /\ Len(shown) \in Nat
    BY DEF PipelineInv, InOrder, IsSequence
<1>3. ToSet(outgoing) \subseteq 1 .. Tokens
    <2>1. outgoing \in Seq(Nat \ {0}) BY DEF BufferInv, BufferTyped
    <2>2. \A j \in 1 .. Len(outgoing) : outgoing[j] \in Nat \ {0} /\ outgoing[j] <= Tokens
        BY <2>1 DEF TypesInv, TypedTokens
    <2>3. DOMAIN outgoing = 1 .. Len(outgoing) BY <2>1
    <2>4. Tokens \in Nat BY <1>2 DEF Tokens
    <2> QED BY <2>2, <2>3, <2>4 DEF ToSet
<1>4. Len(lines) \in 1 .. typed + 1
    BY <1>2, BoundsAssumption DEF BufferInv, BufferTyped, TypesInv, TypedTokens
<1>5. sent \in 0 .. Tokens /\ 4 * Len(shown) <= sent /\ conv \in Conversations
    BY <1>2 DEF PipelineInv, InOrder, Tokens
<1>6. typed \in 0 .. MaxTyped /\ seen \in [1 .. MaxTyped + 1 -> Nat]
    BY DEF BufferInv, BufferTyped
<1> QED BY <1>1, <1>3, <1>4, <1>5, <1>6
    DEF TypeOK, TypesInv, TypedSocket, TypedTokens, MadeIsSealed

-----------------------------------------------------------------------------
(* The receive buffer.                                                      *)

\* What received_buffer may hold: up to its limit, or one chunk.
ReceivedInv ==
    /\ conn \in Connections
    /\ IsSequence(received)
    /\ Len(received) <= Capacity \/ Len(received) <= BufLen

\* A sequence of anything is a sequence.
LEMMA AnySequence ==
    ASSUME NEW V, NEW s \in Seq(V)
    PROVE  IsSequence(s) /\ Len(s) \in Nat
<1>1. s \in Seq(ToSet(s)) BY DEF ToSet
<1> QED BY <1>1 DEF IsSequence

\* Drop takes so many elements off.
LEMMA Dropped ==
    ASSUME NEW s, IsSequence(s), NEW n \in 0 .. Len(s)
    PROVE  IsSequence(Drop(s, n)) /\ Len(Drop(s, n)) = Len(s) - n
<1> DEFINE V == ToSet(s)
<1>1. s \in Seq(V) /\ Len(s) \in Nat BY DEF IsSequence
<1> HIDE DEF V
<1>2. Drop(s, n) \in Seq(V) /\ Len(Drop(s, n)) = Len(s) - n BY <1>1 DEF Drop
<1> QED BY <1>2, AnySequence

\* Two sequences of anything make one.
LEMMA Joined ==
    ASSUME NEW s, IsSequence(s), NEW t, IsSequence(t)
    PROVE  IsSequence(s \o t) /\ Len(s \o t) = Len(s) + Len(t)
<1> DEFINE V == ToSet(s) \cup ToSet(t)
<1>1. s \in Seq(V)
    <2>1. s \in Seq(ToSet(s)) /\ ToSet(s) \subseteq V BY DEF IsSequence
    <2> HIDE DEF V
    <2> QED BY <2>1
<1>2. t \in Seq(V)
    <2>1. t \in Seq(ToSet(t)) /\ ToSet(t) \subseteq V BY DEF IsSequence
    <2> HIDE DEF V
    <2> QED BY <2>1
<1> HIDE DEF V
<1>3. s \o t \in Seq(V) /\ Len(s \o t) = Len(s) + Len(t) BY <1>1, <1>2
<1> QED BY <1>3, AnySequence

\* The last segment is no longer than the text.
LEMMA LastIsPart ==
    ASSUME NEW s, IsSequence(s), NEW ends \in SUBSET (DOMAIN s)
    PROVE  IsSequence(LastOf(s, ends)) /\ Len(LastOf(s, ends)) <= Len(s)
<1>1. Len(s) \in Nat /\ DOMAIN s = 1 .. Len(s) BY DEF IsSequence
<1>2. {0} \cup ends \in SUBSET (0 .. Len(s)) /\ {0} \cup ends # {} BY <1>1
<1>3. Max({0} \cup ends) \in 0 .. Len(s) BY <1>1, <1>2, LastPosition
<1> QED BY <1>1, <1>3, Dropped DEF LastOf

\* What is written keeps the buffer within its limit, but for a chunk that is
\* over it.
LEMMA WrittenIsBounded ==
    ASSUME NEW data, IsSequence(data), IsSequence(received)
    PROVE  /\ IsSequence(Written(data))
           /\ Len(Written(data)) <= Capacity \/ Written(data) = data
<1>1. Capacity \in Nat /\ TruncateTo \in 0 .. Capacity BY RecvAssumption
<1>2. Len(received) \in Nat /\ Len(data) \in Nat BY DEF IsSequence
<1> DEFINE overflow == Len(received) + Len(data) - TruncateTo
<1>3. CASE Len(received) + Len(data) <= Capacity
    <2>1. Written(data) = received \o data BY <1>3 DEF Written
    <2> QED BY <1>3, <2>1, Joined
<1>4. CASE ~(Len(received) + Len(data) <= Capacity) /\ overflow < Len(received)
    <2>1. Written(data) = Drop(received, overflow) \o data BY <1>1, <1>2, <1>4 DEF Written
    <2>2. overflow \in 0 .. Len(received) BY <1>1, <1>2, <1>4
    <2> HIDE DEF overflow
    <2>3. /\ IsSequence(Drop(received, overflow))
          /\ Len(Drop(received, overflow)) = Len(received) - overflow
        BY <2>2, Dropped
    <2>4. /\ IsSequence(Written(data))
          /\ Len(Written(data)) = Len(received) - overflow + Len(data)
        BY <2>1, <2>3, Joined
    <2>5. Len(received) - overflow + Len(data) = TruncateTo BY <1>1, <1>2 DEF overflow
    <2> QED BY <1>1, <2>4, <2>5
<1>5. CASE ~(Len(received) + Len(data) <= Capacity) /\ ~(overflow < Len(received))
    <2>1. Written(data) = data BY <1>1, <1>2, <1>5 DEF Written
    <2> QED BY <2>1
<1> QED BY <1>3, <1>4, <1>5

\* A call of recv or SSL_read writes one chunk to the buffer.
LEMMA ReceiveKeeps ==
    ASSUME ReceivedInv, NEW n \in 1 .. BufLen, Receive(n)
    PROVE  ReceivedInv'
<1> DEFINE data == [j \in 1 .. n |-> Stream[arrived + j]]
<1>1. conn.bufLen \in Nat BY RecvAssumption DEF ReceivedInv
<1>2. IsSequence(data) /\ Len(data) <= BufLen
    <2> DEFINE V == {data[j] : j \in 1 .. n}
    <2>1. data \in Seq(V) /\ Len(data) = n BY <1>1 DEF BufLen
    <2> HIDE DEF V, data
    <2> QED BY <1>1, <2>1, AnySequence DEF BufLen
<1>3. conn' = conn /\ received' = Written(data) BY DEF Receive
<1> HIDE DEF data
<1>4. IsSequence(received) BY DEF ReceivedInv
<1>5. /\ IsSequence(Written(data))
      /\ Len(Written(data)) <= Capacity \/ Written(data) = data
    BY <1>2, <1>4, WrittenIsBounded
<1> QED BY <1>2, <1>3, <1>5 DEF ReceivedInv, IsSequence, BufLen

\* process_received_lines keeps a part of what it read.
LEMMA ProcessKeeps ==
    ASSUME ReceivedInv, Process \/ ProcessLossy
    PROVE  ReceivedInv'
<1>1. conn.bufLen \in Nat /\ Capacity \in Nat BY RecvAssumption DEF ReceivedInv
<1>2. IsSequence(received) /\ Len(received) \in Nat BY DEF ReceivedInv, IsSequence
<1>3. PICK keep : /\ conn' = conn /\ received' = keep
                  /\ IsSequence(keep) /\ Len(keep) <= Len(received)
    <2>1. CASE Process
        <3>1. conn' = conn /\ received' = LastOf(received, Ends(received))
            BY <2>1 DEF Process, Processed
        <3>2. Ends(received) \in SUBSET (DOMAIN received) BY DEF Ends
        <3> QED BY <1>2, <3>1, <3>2, LastIsPart
    <2>2. CASE ProcessLossy
        <3>1. /\ conn' = conn
              /\ \/ received' = <<>>
                 \/ received' = LastOf(received, EndsAtCR(received))
            BY <2>2 DEF ProcessLossy, Processed
        <3>2. EndsAtCR(received) \in SUBSET (DOMAIN received) BY DEF EndsAtCR
        <3>3. IsSequence(<<>>) /\ Len(<<>>) <= Len(received) BY <1>2 DEF IsSequence
        <3> QED BY <1>2, <3>1, <3>2, <3>3, LastIsPart
    <2> QED BY <2>1, <2>2
<1>4. Len(keep) \in Nat BY <1>3 DEF IsSequence
<1>5. Len(keep) <= Capacity \/ Len(keep) <= BufLen
    BY <1>1, <1>2, <1>3, <1>4 DEF ReceivedInv, BufLen
<1> QED BY <1>3, <1>5 DEF ReceivedInv, IsSequence, BufLen

-----------------------------------------------------------------------------
(* The theorems.                                                            *)

\* Every reachable state of every conversation satisfies the inductive invariant.
THEOREM PipelineInvariant == Spec => []PipelineInv
<1>1. Init => PipelineInv BY InitInv
<1>2. PipelineInv /\ [Next]_vars => PipelineInv'
    <2> SUFFICES ASSUME PipelineInv, [Next]_vars PROVE PipelineInv' OBVIOUS
    <2>1. ASSUME NEW input \in conv.inputs, Type(input) PROVE PipelineInv'
        BY <2>1, TypeKeeps
    <2>2. CASE Age BY <2>2, AgeKeeps
    <2>3. CASE HookedConnect BY <2>3, ConnectKeeps
    <2>4. ASSUME NEW n \in 1 .. (Tokens - sent), NEW m \in 0 .. n, HookedSend(n, m)
          PROVE  PipelineInv'
        BY <2>4, SendKeeps
    <2>5. CASE Read BY <2>5, ReadKeeps
    <2>6. CASE UNCHANGED vars BY <2>6, Unmoved DEF vars, chat, socket, PipelineInv, OwnKeys
    <2> QED BY <2>1, <2>2, <2>3, <2>4, <2>5, <2>6 DEF Next
<1> QED BY <1>1, <1>2, PTL DEF Spec

\* Every reachable state satisfies the inductive invariant of the line buffer.
THEOREM BufferInvariant == Spec => []BufferInv
<1>1. Init => BufferInv BY InitBuffer
<1>2. PipelineInv /\ BufferInv /\ [Next]_vars => BufferInv'
    <2> SUFFICES ASSUME PipelineInv, BufferInv, [Next]_vars PROVE BufferInv' OBVIOUS
    <2>1. ASSUME NEW input \in conv.inputs, Type(input) PROVE BufferInv'
        BY <2>1, TypeKeepsBuffer
    <2>2. ASSUME NEW n \in 1 .. (Tokens - sent), NEW m \in 0 .. n, HookedSend(n, m)
          PROVE  BufferInv'
        BY <2>2, SendKeepsBuffer
    <2>3. CASE \/ Age \/ HookedConnect \/ Read \/ UNCHANGED vars
        <3>1. UNCHANGED <<conv, typed, lines, sent, ssl, outgoing, seen, bad>>
            BY <2>3 DEF Age, HookedConnect, Read, vars, chat, socket
        <3>2. typed' \in 0 .. MaxTyped /\ Len(lines') <= typed' + 1
            BY <3>1 DEF BufferInv, BufferTyped
        <3> QED BY <3>1, <3>2, BufferUnmoved
    <2> QED BY <2>1, <2>2, <2>3 DEF Next
<1> QED BY <1>1, <1>2, PipelineInvariant, PTL DEF Spec

\* Every variable of SendPipeline keeps its type, for any conversations and bounds.
THEOREM TypeCorrect == Spec => []TypeOK
<1>1. Init => TypesInv BY InitTypes
<1>2. PipelineInv /\ BufferInv /\ TypesInv /\ [Next]_vars => TypesInv'
    <2> SUFFICES ASSUME PipelineInv, BufferInv, TypesInv, [Next]_vars PROVE TypesInv' OBVIOUS
    <2>1. ASSUME NEW input \in conv.inputs, Type(input) PROVE TypesInv' BY <2>1, TypeKeepsTypes
    <2>2. CASE Age
        <3>1. TypedSocket' BY <2>2 DEF Age, socket, TypesInv, TypedSocket
        <3> QED BY <2>2, <3>1, TypesUnmoved DEF Age, socket
    <2>3. CASE HookedConnect
        <3>1. TypedSocket' BY <2>3 DEF HookedConnect, chat, TypesInv, TypedSocket
        <3> QED BY <2>3, <3>1, TypesUnmoved DEF HookedConnect, chat
    <2>4. ASSUME NEW n \in 1 .. (Tokens - sent), NEW m \in 0 .. n, HookedSend(n, m)
          PROVE  TypesInv'
        BY <2>4, SendKeepsTypes
    <2>5. CASE Read
        <3>1. TypedSocket' BY <2>5 DEF Read, chat, socket, TypesInv, TypedSocket
        <3> QED BY <2>5, <3>1, TypesUnmoved DEF Read, chat, socket
    <2>6. CASE UNCHANGED vars
        <3>1. TypedSocket' BY <2>6 DEF vars, chat, socket, TypesInv, TypedSocket
        <3> QED BY <2>6, <3>1, TypesUnmoved DEF vars, chat, socket
    <2> QED BY <2>1, <2>2, <2>3, <2>4, <2>5, <2>6 DEF Next
<1> QED BY <1>1, <1>2, PipelineInvariant, BufferInvariant, TypesFollow, PTL DEF Spec

\* The engines are passed a line whole and once when it and the line end before it
\* went out in chunks that are UTF-8 and were sent whole, however it was cut and
\* whatever happened to other chunks (outgoing_line_buffer of on_sending).
THEOREM EnginesSeeLinesHolds == Spec => []EnginesSeeLines
<1>1. PipelineInv /\ BufferInv => EnginesSeeLines
    <2> SUFFICES ASSUME PipelineInv, BufferInv, NEW i \in DOMAIN lines,
                        4 * i <= sent, ~conv.tls, (4 * i - 5) .. (4 * i) \cap bad = {}
                 PROVE  seen[i] = 1
        BY DEF EnginesSeeLines
    <2>1. i \in 1 .. MaxTyped + 1
        BY BoundsAssumption DEF PipelineInv, InOrder, IsSequence, BufferInv, BufferTyped
    <2>2. SentLine(i) BY DEF SentLine, Clean
    <2> QED BY <2>1, <2>2 DEF BufferInv, SeenOnce
<1> QED BY <1>1, PipelineInvariant, BufferInvariant, PTL

\* A connection is known for TLS or for IRC, and open, from the first chunk on,
\* also if connect() marked it closed (handle_protocol_detection).
THEOREM ClassifiedOnceHolds == Spec => []ClassifiedOnce
<1>1. PipelineInv => ClassifiedOnce BY DEF PipelineInv
<1> QED BY <1>1, PipelineInvariant, PTL

\* A text that the script is to seal is sealed or not sent, also when its key
\* expires or is not there (on INPUT, get_private_key).
THEOREM TextNeverPlainHolds == Spec => []TextNeverPlain
<1>1. PipelineInv => TextNeverPlain
    BY DEF PipelineInv, LinesMade, NotPlain, TextNeverPlain
<1> QED BY <1>1, PipelineInvariant, PTL

\* Whoever has the key of a line reads it, whether the script or the engine sealed
\* it and whether the engine or the script opens it (FiSH11_EncryptMsg,
\* attempt_encryption and their opposites).
THEOREM SealedIsReadHolds == Spec => []SealedIsRead
<1>1. PipelineInv => SealedIsRead
    <2> SUFFICES ASSUME PipelineInv,
                        conv.reader.incoming, conv.reader.prefix = "+FiSH", conv.prefix = "+FiSH"
                 PROVE  SealedIsRead
        BY DEF SealedIsRead
    <2> DEFINE readable(line) ==
            /\ line.body.mark # "clear" /\ KeyOf(conv.peer, line) = line.body.key
            /\ ReadBack(line)
    <2>1. ASSUME NEW i \in DOMAIN shown, readable(lines[i])
          PROVE  shown[i] = lines[i].body.text
        <3>1. i \in DOMAIN lines
            BY DEF PipelineInv, InOrder, IsSequence, Tokens
        <3>2. IsLine(lines[i]) /\ WellSealed(conv.own, lines[i]) BY <3>1 DEF PipelineInv, LinesMade
        <3>3. Shown(conv.peer, conv.reader, lines[i]) = lines[i].body.text
            BY <2>1, <3>2, WellSealedIsRead
        <3> QED BY <3>3 DEF PipelineInv, ShownIsOpened
    <2>2. ASSUME NEW line \in made, readable(line)
          PROVE  Shown(conv.peer, conv.reader, line) = line.body.text
        BY <2>2, WellSealedIsRead DEF PipelineInv, EngineSealsWell
    <2> QED BY <2>1, <2>2 DEF SealedIsRead
<1> QED BY <1>1, PipelineInvariant, PTL

\* Every reachable state satisfies the inductive invariant of the receive buffer.
THEOREM ReceivedInvariant == RecvSpec => []ReceivedInv
<1>1. RecvInit => ReceivedInv
    <2> SUFFICES ASSUME RecvInit PROVE ReceivedInv OBVIOUS
    <2>1. conn \in Connections /\ received = <<>> BY DEF RecvInit
    <2>2. IsSequence(<<>>) /\ Len(<<>>) = 0 BY DEF IsSequence
    <2>3. Capacity \in Nat BY RecvAssumption
    <2> QED BY <2>1, <2>2, <2>3 DEF ReceivedInv
<1>2. ReceivedInv /\ [RecvNext]_recvVars => ReceivedInv'
    <2> SUFFICES ASSUME ReceivedInv, [RecvNext]_recvVars PROVE ReceivedInv' OBVIOUS
    <2>1. ASSUME NEW n \in 1 .. BufLen, Receive(n) PROVE ReceivedInv'
        BY <2>1, ReceiveKeeps
    <2>2. CASE Process \/ ProcessLossy BY <2>2, ProcessKeeps
    <2>3. CASE ReceiveClose \/ Return \/ UNCHANGED recvVars
        <3>1. UNCHANGED <<conn, received>> BY <2>3 DEF ReceiveClose, Return, recvVars
        <3> QED BY <3>1 DEF ReceivedInv, IsSequence, BufLen
    <2> QED BY <2>1, <2>2, <2>3 DEF RecvNext
<1> QED BY <1>1, <1>2, PTL DEF RecvSpec

\* received_buffer never holds more than its limit, or than one chunk if the
\* application's buffer is larger: whatever the server sends, however it is cut and
\* whether or not it ever ends a line (write_received_data).
THEOREM ReceivedBoundedHolds == RecvSpec => []ReceivedBounded
<1>1. ReceivedInv => ReceivedBounded
    <2> SUFFICES ASSUME ReceivedInv PROVE ReceivedBounded OBVIOUS
    <2>1. conn.bufLen \in Nat /\ Capacity \in Nat BY RecvAssumption DEF ReceivedInv
    <2>2. Len(received) \in Nat BY DEF ReceivedInv, IsSequence
    <2> DEFINE S == {Capacity, BufLen}
    <2>3. S \in SUBSET (0 .. Capacity + BufLen) /\ S # {} BY <2>1 DEF BufLen
    <2> HIDE DEF S
    <2>4. Max(S) \in S /\ \A y \in S : Max(S) >= y
        <3>1. Capacity + BufLen \in Nat BY <2>1 DEF BufLen
        <3> QED BY <2>3, <3>1, LastPosition
    <2>5. Max(S) \in Nat /\ Max(S) >= Capacity /\ Max(S) >= BufLen
        BY <2>1, <2>4 DEF S, BufLen
    <2> QED BY <2>1, <2>2, <2>5 DEF ReceivedInv, ReceivedBounded, BufLen, S
<1> QED BY <1>1, ReceivedInvariant, PTL
=============================================================================
