---------------------------- MODULE SendPipeline ----------------------------
(***************************************************************************)
(* What a user types, from the script's on INPUT handler through the hook  *)
(* of send (hooked_send, on_sending) to what the other side is shown.      *)
(*                                                                         *)
(* The first line of a connection is a registration command; with TLS it   *)
(* is the ClientHello, and every later line an encrypted record.  A line   *)
(* is four tokens of the byte stream: the two halves of its text, CR and   *)
(* LF.  mIRC may cut the stream anywhere, and it repeats what send() did   *)
(* not take.  The result of the engines is thrown away by the code: the    *)
(* buffer that is sent is the one mIRC passed.                             *)
(***************************************************************************)
EXTENDS Integers, Sequences, SequencesExt, LineCrypto

CONSTANTS
    Conversations,  \* records: own and peer (keys), outgoing, encryptAction and
                    \* tls (booleans), prefix, reader (settings), inputs (a set
                    \* of records form, to, text)
    Wide,           \* texts with a character of several bytes in the middle
    MaxTyped,       \* bound: inputs
    MaxFaults       \* bound: calls of send() that take less than they are given

ASSUME BoundsAssumption == MaxTyped \in Nat /\ MaxFaults \in Nat

ASSUME ConversationAssumption ==
    \A c \in Conversations :
        /\ c.own = [store |-> c.own.store, channel |-> c.own.channel, legacy |-> c.own.legacy]
        /\ c.tls \in BOOLEAN /\ c.prefix # "clear"
        /\ \A input \in c.inputs : input.to \in Targets

VARIABLES
    conv,       \* the conversation
    keys,       \* the sender's keys for the other side
    aged,       \* the sender's key-store entry is past its lifetime
    typed,      \* inputs typed
    lines,      \* the lines that mIRC puts out, the first at connection
    sent,       \* tokens that send() has taken
    state,      \* SocketInfo.state
    ssl,        \* SocketInfo.flags.is_ssl
    counted,    \* SocketInfo.stats.bytes_sent > 0
    outgoing,   \* SocketInfo.outgoing_line_buffer, as tokens
    seen,       \* how often each line was passed to the engines as it was put out
    made,       \* lines that the engine has sealed
    shown,      \* what the reader was shown of each line
    faults,     \* calls of send() that took less
    bad         \* history: tokens of a chunk that is not UTF-8 or not sent whole

chat == <<keys, aged, typed, lines>>
socket == <<state, ssl, counted, outgoing, seen, made, bad>>
vars == <<conv, chat, sent, socket, shown, faults>>

-----------------------------------------------------------------------------
(* The script.                                                              *)

\* The text of an error message of the DLL.
ErrorText == "KEY_EXPIRED"

\* on INPUT leaves alone what starts with the plain prefix, commands such as
\* /topic, and /me unless actions are encrypted.
Protects(input) ==
    /\ conv.outgoing
    /\ input.form \in {"say", "notice"} \/ (input.form = "me" /\ conv.encryptAction)

LineOf(input, body) ==
    [cmd |-> CASE input.form = "notice" -> "NOTICE" [] input.form = "topic" -> "TOPIC"
               [] OTHER -> "PRIVMSG",
     to |-> input.to, action |-> input.form = "me", meant |-> Protects(input), body |-> body]

Registration ==
    [cmd |-> "other", to |-> Target(FALSE, TRUE, FALSE), action |-> FALSE,
     meant |-> FALSE, body |-> Clear("NICK")]

\* (Mutant: an input that cannot be sealed is not halted.)
AnsweredUnhalted(input) ==
    Append(lines, LineOf(input, ScriptSeals(keys, input.to, input.text)))

\* What the handler sends of an input that it protects: nothing for an error
\* that it knows.  (A key that is missing is the only error here.)
Answered(input) ==
    LET body == ScriptSeals(keys, input.to, input.text)
    IN  IF body.mark = "clear" THEN lines ELSE Append(lines, LineOf(input, body))

\* get_private_key finds the key expired and deletes it.
FindsExpired(input) ==
    LET body == ScriptSeals(keys, input.to, input.text)
    IN  aged /\ body.mark = "+FiSH" /\ body.ad = NoAD

\* An input.  KEY_EXPIRED is no error that the script knows, and it is returned
\* as a command: whether mIRC gives the handler that text is up to mIRC.
Type(input) ==
    /\ typed < MaxTyped
    /\ typed' = typed + 1
    /\ \/ ~Protects(input) /\ lines' = Append(lines, LineOf(input, Clear(input.text)))
          /\ UNCHANGED <<keys, aged>>
       \/ Protects(input) /\ ~FindsExpired(input) /\ lines' = Answered(input)
          /\ UNCHANGED <<keys, aged>>
       \/ /\ Protects(input) /\ FindsExpired(input)
          /\ keys' = [keys EXCEPT !.store = NoKey] /\ aged' = FALSE
          /\ lines' \in {lines, Append(lines, LineOf(input, Clear(ErrorText)))}
    /\ UNCHANGED <<conv, sent, socket, shown, faults>>

\* The key's lifetime ends.
Age ==
    /\ ~aged /\ keys.store # NoKey /\ typed < MaxTyped
    /\ aged' = TRUE
    /\ UNCHANGED <<conv, keys, typed, lines, sent, socket, shown, faults>>

-----------------------------------------------------------------------------
(* The hook of send.                                                        *)

LineAt(t) == ((t - 1) \div 4) + 1
Part(t) == ((t - 1) % 4) + 1
Tokens == 4 * Len(lines)

\* str::from_utf8 of a chunk: no character is cut, and it is no TLS record.
Utf8(chunk) ==
    /\ ~conv.tls
    /\ \A t \in ToSet(chunk) :
           LET body == lines[LineAt(t)].body
           IN  (Part(t) \in {1, 2} /\ body.mark = "clear" /\ body.text \in Wide) =>
                   {4 * LineAt(t) - 3, 4 * LineAt(t) - 2} \subseteq ToSet(chunk)

\* split("\r\n"): where the pieces of a buffer end, and the lines that are pieces of
\* it, whole and without anything before them.
LineEnds(buffer) == {e \in 2 .. Len(buffer) : Part(buffer[e]) = 4 /\ Part(buffer[e - 1]) = 3}

WholeLines(buffer) ==
    {i \in DOMAIN lines : \E e \in LineEnds(buffer) :
        /\ e = 4 \/ e - 4 \in LineEnds(buffer)
        /\ buffer[e - 3] = 4 * i - 3 /\ buffer[e - 2] = 4 * i - 2}

\* (Mutant: what follows the last line end is not put back.)
RemainingDropped(buffer) == IF LineEnds(buffer) = {} THEN buffer ELSE <<>>

Remaining(buffer) == SubSeq(buffer, Max({0} \cup LineEnds(buffer)) + 1, Len(buffer))

\* The engine's result for these lines; of an action it seals the word ACTION too.
EngineMade(whole) ==
    LET usable == IF aged THEN [keys EXCEPT !.store = NoKey] ELSE keys
        sealed(i) == EngineSeals(usable, [prefix |-> conv.prefix], lines[i])
    IN  {[lines[i] EXCEPT !.body = sealed(i), !.action = FALSE] :
            i \in {j \in whole : sealed(j) # lines[j].body}}

\* (Mutant: on_sending leaves the detection to hooked_send.)
DetectedByHook ==
    IF state = "Initializing"
    THEN [state |-> IF conv.tls THEN "TlsHandshake" ELSE "Connected", ssl |-> conv.tls]
    ELSE [state |-> state, ssl |-> FALSE]

\* The first chunk of a connection: what hooked_send marks of a socket that is
\* still Initializing, handle_protocol_detection then decides for every state.  A
\* chunk is taken to be long enough to tell (five bytes).
Detected == [state |-> IF conv.tls THEN "TlsHandshake" ELSE "Connected", ssl |-> conv.tls]

\* on_sending.
OnSending(chunk) ==
    /\ counted' = TRUE
    /\ state' = IF counted THEN state ELSE Detected.state
    /\ ssl' = IF counted THEN ssl ELSE Detected.ssl
    /\ IF Utf8(chunk)
       THEN LET buffer == outgoing \o chunk
                whole == WholeLines(buffer)
            IN  /\ outgoing' = Remaining(buffer)
                /\ seen' = [i \in DOMAIN seen |-> seen[i] + (IF i \in whole THEN 1 ELSE 0)]
                /\ made' = made \cup EngineMade(whole)
       ELSE UNCHANGED <<outgoing, seen, made>>

\* hooked_send of the next n tokens, of which the original send(), when the
\* hook's lock is had in time, takes m.
HookedSend(n, m) ==
    LET chunk == [j \in 1 .. n |-> sent + j]
    IN  /\ sent + n <= Tokens
        /\ m < n => faults < MaxFaults
        /\ faults' = IF m < n THEN faults + 1 ELSE faults
        /\ sent' = sent + m
        /\ IF ssl THEN UNCHANGED socket
           ELSE /\ OnSending(chunk)
                /\ bad' = IF m < n \/ ~Utf8(chunk) THEN bad \cup ToSet(chunk) ELSE bad
        /\ UNCHANGED <<conv, chat, shown>>

\* hooked_connect, before anything is sent: a connect() that would block is
\* marked closed.
HookedConnect ==
    /\ state = "Initializing" /\ ~counted
    /\ state' \in {"Connected", "Closed"}
    /\ UNCHANGED <<conv, chat, sent, ssl, counted, outgoing, seen, made, bad, shown, faults>>

-----------------------------------------------------------------------------
\* The reader's client is given the next line.
Read ==
    LET i == Len(shown) + 1
    IN  /\ 4 * i <= sent
        /\ shown' = Append(shown, Shown(conv.peer, conv.reader, lines[i]))
        /\ UNCHANGED <<conv, chat, sent, socket, faults>>

Init ==
    /\ conv \in Conversations
    /\ keys = conv.own
    /\ aged = FALSE
    /\ typed = 0
    /\ lines = <<Registration>>
    /\ sent = 0
    /\ state = "Initializing"
    /\ ssl = FALSE
    /\ counted = FALSE
    /\ outgoing = <<>>
    /\ seen = [i \in 1 .. MaxTyped + 1 |-> 0]
    /\ made = {}
    /\ shown = <<>>
    /\ faults = 0
    /\ bad = {}

Next ==
    \/ \E input \in conv.inputs : Type(input)
    \/ Age
    \/ HookedConnect
    \/ \E n \in 1 .. (Tokens - sent) : \E m \in 0 .. n : HookedSend(n, m)
    \/ Read

Spec == Init /\ [][Next]_vars

-----------------------------------------------------------------------------
(* Properties.                                                              *)

\* What was sent is not ahead of what mIRC puts out, nor what was shown of it.
TypeOK ==
    /\ conv \in Conversations
    /\ keys.store \in {conv.own.store, NoKey} /\ keys = [conv.own EXCEPT !.store = keys.store]
    /\ aged \in BOOLEAN /\ ssl \in BOOLEAN /\ counted \in BOOLEAN
    /\ typed \in 0 .. MaxTyped /\ faults \in 0 .. MaxFaults
    /\ Len(lines) \in 1 .. typed + 1
    /\ sent \in 0 .. Tokens
    /\ state \in {"Initializing", "TlsHandshake", "Connected", "Closed"}
    /\ 4 * Len(shown) <= sent
    /\ ToSet(outgoing) \subseteq 1 .. Tokens /\ bad \subseteq 1 .. Tokens
    /\ seen \in [1 .. MaxTyped + 1 -> Nat]
    /\ \A line \in made : line.body.mark # "clear" /\ ~line.action

\* A line is passed to the engines whole and once when it, and the line end
\* before it, went out in chunks that are UTF-8 and were sent whole, whatever
\* happened to other chunks (outgoing_line_buffer of on_sending).
EnginesSeeLines ==
    \A i \in DOMAIN lines :
        (4 * i <= sent /\ ~conv.tls /\ (4 * i - 5) .. (4 * i) \cap bad = {}) =>
            seen[i] = 1

\* Once something was sent, a connection is known for TLS or for IRC and is
\* open, whether connect() was hooked, and when it would have blocked
\* (hooked_connect, hooked_send, handle_protocol_detection).
ClassifiedOnce ==
    counted => /\ ssl = conv.tls
               /\ state = (IF conv.tls THEN "TlsHandshake" ELSE "Connected")

\* No text that the user meant to be encrypted leaves in clear, also when its
\* key expires between two inputs (on INPUT, get_private_key).
TextNeverPlain ==
    \A i \in DOMAIN lines :
        lines[i].meant =>
            lines[i].body.mark # "clear" \/ lines[i].body.text = ErrorText

\* What the code cannot read back: an action under a legacy key, a topic of a
\* channel not written in lower case or under a legacy key, a line to a channel that
\* the sender has no channel key for, only an entry in the key store, and a text too
\* long for the answer that brings it sealed to the script.
ReadBack(line) ==
    LET mark == line.body.mark
    IN  /\ ~(mark = "+OK" /\ line.action)
        /\ ~(mark = "+FiSH" /\ line.to.channel /\ conv.own.channel = NoKey)
        /\ ~(mark = "+FCEP_TOPIC+" /\ ~line.to.lower)
        /\ mark # "+OKtopic"
        /\ line.body.text # Cut

\* A client's key for a line: of a line with a legacy mark the legacy key, of one
\* to a channel the channel's, of any other the key store's entry.
KeyOf(owned, line) ==
    IF line.body.mark \in {"+OK", "+OKtopic"} THEN owned.legacy
    ELSE IF line.to.channel THEN owned.channel
    ELSE owned.store

\* A reader who has the key of a line, with the default settings, reads the line
\* that the script or the engine sealed, by the engine or by the script: they agree
\* about which key, and which associated data, go with a target (FiSH11_EncryptMsg,
\* attempt_encryption and their opposites).
SealedIsRead ==
    LET peer == conv.peer
        readable(line) ==
            line.body.mark # "clear" /\ KeyOf(peer, line) = line.body.key /\ ReadBack(line)
    IN  conv.reader.incoming /\ conv.reader.prefix = "+FiSH" /\ conv.prefix = "+FiSH" =>
            /\ \A i \in DOMAIN shown : readable(lines[i]) => shown[i] = lines[i].body.text
            /\ \A line \in made :
                   readable(line) => Shown(peer, conv.reader, line) = line.body.text
=============================================================================
