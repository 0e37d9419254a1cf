----------------------------- MODULE LineCrypto -----------------------------
(***************************************************************************)
(* How a line of chat is sealed and opened in fish_11_dll: by the script,  *)
(* which calls FiSH11_EncryptMsg, FiSH10_EncryptMsg and their counterparts *)
(* (fish11_encrypt_out.mrc, fish11_encrypt_in.mrc), and by the engine in   *)
(* the way of the lines (attempt_encryption and attempt_decryption of      *)
(* engine_registration.rs).                                                *)
(*                                                                         *)
(* Two clients write to one another, or on a channel.  A client's keys for *)
(* the other side are a record: "store" is the key store's entry for the   *)
(* nickname or channel, "channel" the manual or distributed channel key,   *)
(* "legacy" the one of blowfish.ini.  There are no ratchet states.         *)
(***************************************************************************)
CONSTANTS
    NoKey,      \* no such key
    Mentions,   \* texts with PRIVMSG, NOTICE or TOPIC between spaces
    Long        \* texts that fill more than an answer of the DLL when they are sealed

-----------------------------------------------------------------------------
(* Lines.  A target is a channel or not, written in lower case or not, with *)
(* a STATUSMSG prefix (@#channel) or not.                                   *)

Target(channel, lower, status) ==
    [channel |-> channel, lower |-> lower, status |-> status]

Targets == [channel : BOOLEAN, lower : BOOLEAN, status : BOOLEAN]

\* Associated data: none, or a channel's name.
NoAD == "none"
AsWritten(to) == IF to.lower THEN "lower" ELSE "mixed"
LowerCase == "lower"

\* What follows " :" in a line.
Clear(text) == [mark |-> "clear", key |-> NoKey, ad |-> NoAD, text |-> text]
Sealed(mark, key, ad, text) == [mark |-> mark, key |-> key, ad |-> ad, text |-> text]

\* What is sealed is cut in the middle of its encoding.
Cut == "cut"

\* Results that are not a text of the sender.
Failed == "failed"
Garbage == "garbage"

\* normalize_target: a channel's STATUSMSG prefixes are taken off.
Normal(to) == [to EXCEPT !.status = to.status /\ ~to.channel]

\* decrypt_message: ChaCha20-Poly1305 fails on another key or other associated
\* data, Blowfish gives something for any key.  An encoding that was cut does not
\* decode.
Open(key, ad, body) ==
    IF key = NoKey \/ body.text = Cut THEN Failed
    ELSE IF body.mark \in {"+OK", "+OKtopic"}
         THEN IF key = body.key THEN body.text ELSE Garbage
    ELSE IF key = body.key /\ ad = body.ad THEN body.text ELSE Failed

-----------------------------------------------------------------------------
(* The functions that the script calls.                                     *)

\* write_cstring_to_buffer: an answer ends after 900 bytes, and nobody is told.
\* The script lets texts of 850 characters through, sealing makes more of them.
Carried(text) == IF text \in Long THEN Cut ELSE text

\* (Mutant: the channel is not bound to what is said on it.)
EncryptMsgUnbound(keys, to, text) ==
    IF to.channel /\ keys.channel # NoKey
    THEN Sealed("+FiSH", keys.channel, NoAD, Carried(text))
    ELSE IF keys.store # NoKey
    THEN Sealed("+FiSH", keys.store, NoAD, Carried(text))
    ELSE Clear(text)

\* FiSH11_EncryptMsg.  A channel without a channel key is looked for in the key
\* store like a nickname; what is not sealed comes back clear for "failed".
EncryptMsg(keys, to, text) ==
    IF to.channel /\ keys.channel # NoKey
    THEN Sealed("+FiSH", keys.channel, AsWritten(Normal(to)), Carried(text))
    ELSE IF keys.store # NoKey
    THEN Sealed("+FiSH", keys.store, NoAD, Carried(text))
    ELSE Clear(text)

\* FiSH10_EncryptMsg.
EncryptMsg10(keys, text) ==
    IF keys.legacy # NoKey THEN Sealed("+OK", keys.legacy, NoAD, Carried(text)) ELSE Clear(text)

\* FiSH11_DecryptMsg: on a channel without a key it wants a ratchet state.
DecryptMsg(keys, to, body) ==
    IF body.mark # "+FiSH" THEN Failed
    ELSE IF ~to.channel THEN Open(keys.store, NoAD, body)
    ELSE Open(keys.channel, AsWritten(Normal(to)), body)

\* The on INPUT handler's choice: a channel is one by the first character it was
\* written with, so not one with a STATUSMSG prefix.
ScriptSeals(keys, to, text) ==
    IF keys.legacy # NoKey /\ (~to.channel \/ to.status)
    THEN EncryptMsg10(keys, text)
    ELSE EncryptMsg(keys, to, text)

\* The on TEXT, NOTICE and ACTION handlers: they look for the configured prefix.
ScriptOpens(keys, settings, line) ==
    IF settings.incoming /\ settings.prefix = line.body.mark
    THEN DecryptMsg(keys, line.to, line.body)
    ELSE Failed

-----------------------------------------------------------------------------
(* The engine.                                                              *)

\* The mark a sealed line is put together with: a topic's has no space after it
\* under a legacy key.
Mark(topic, legacy, prefix) ==
    IF legacy THEN IF topic THEN "+OKtopic" ELSE "+OK"
    ELSE IF topic THEN "+FCEP_TOPIC+" ELSE prefix

\* Under the key of FiSH 11 if there is one, else the legacy key, else not at all.
SealUnder(key, ad, keys, topic, prefix, text) ==
    IF key # NoKey THEN Sealed(Mark(topic, FALSE, prefix), key, ad, text)
    ELSE IF keys.legacy # NoKey THEN Sealed(Mark(topic, TRUE, prefix), keys.legacy, NoAD, text)
    ELSE Clear(text)

SealsTopic(keys, to, text) ==
    SealUnder(keys.channel, AsWritten(to), keys, TRUE, "", text)

SealsChannel(keys, prefix, to, text) ==
    SealUnder(keys.channel, AsWritten(to), keys, FALSE, prefix, text)

SealsPrivate(keys, prefix, text) == SealUnder(keys.store, NoAD, keys, FALSE, prefix, text)

\* attempt_encryption.  The commands are looked for after a space, which the
\* client's own lines have in their text at most.  Without a key the line stays
\* as it is.
EngineSeals(keys, settings, line) ==
    LET to == Normal(line.to)
        text == line.body.text
    IN  IF line.body.mark # "clear" \/ text \notin Mentions \/ line.cmd = "other"
        THEN line.body
        ELSE IF line.cmd = "TOPIC" THEN SealsTopic(keys, to, text)
        ELSE IF to.channel THEN SealsChannel(keys, settings.prefix, to, text)
        ELSE SealsPrivate(keys, settings.prefix, text)

\* The reader's key for a channel falls back to the key store's.
ReaderKey(keys, to) ==
    IF to.channel /\ keys.channel # NoKey THEN keys.channel ELSE keys.store

\* A topic that is set, or that a channel has on joining it.
OpensTopic(keys, line) ==
    IF line.body.mark = "+FCEP_TOPIC+"
    THEN Open(ReaderKey(keys, line.to), LowerCase, line.body)
    ELSE Open(keys.legacy, NoAD, line.body)

OpensLegacy(keys, line) == Open(keys.legacy, NoAD, line.body)

\* The channel is always taken in lower case.
OpensMessage(keys, line) ==
    Open(ReaderKey(keys, line.to), IF line.to.channel THEN LowerCase ELSE NoAD, line.body)

\* attempt_decryption: the mark must start the text (an action has \x01ACTION
\* before it).
EngineOpens(keys, settings, line) ==
    LET mark == line.body.mark
    IN  IF line.action THEN Failed
        ELSE IF line.cmd = "TOPIC" /\ mark \in {"+FCEP_TOPIC+", "+OK"} THEN OpensTopic(keys, line)
        ELSE IF mark = "+OK" THEN OpensLegacy(keys, line)
        ELSE IF mark = settings.prefix THEN OpensMessage(keys, line)
        ELSE Failed

-----------------------------------------------------------------------------
\* What the reader is shown in clear of a line: the engine's result, or what the
\* script finds in the line that the engine left alone.
Shown(keys, settings, line) ==
    LET opened == EngineOpens(keys, settings, line)
    IN  IF opened # Failed THEN opened ELSE ScriptOpens(keys, settings, line)
=============================================================================
