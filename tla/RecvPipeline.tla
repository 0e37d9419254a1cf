---------------------------- MODULE RecvPipeline ----------------------------
(***************************************************************************)
(* The way of received data through fish_11_inject: hooked_recv            *)
(* (hook_socket.rs) and hooked_ssl_read (hook_ssl.rs), which share         *)
(* write_received_data (socket/buffers.rs) and process_received_lines      *)
(* (socket/handlers/incoming_irc.rs).                                      *)
(*                                                                         *)
(* A text is a sequence of tokens: line i of the server is lines[i] tokens *)
(* <<i, 1>>, <<i, 2>>, ..., CR and LF, a token standing for a byte.  The   *)
(* engines decrypt an encrypted line only if they get the whole of it; the *)
(* result is the one token <<i, 0>>.  One thread reads a connection, so    *)
(* its buffers' locks are always free.                                     *)
(***************************************************************************)
EXTENDS Integers, Sequences, SequencesExt

CONSTANTS
    Connections,    \* the connections considered
    Capacity,       \* most that received_buffer may hold
    TruncateTo      \* what remains of it when it would exceed Capacity

\* lines: the number of tokens of each of the server's lines; encrypted: those
\* that the engines decrypt; binary: those of bytes that are not UTF-8; bufLen: the size
\* of the application's buffer; whole: every chunk that arrives ends a line.
ASSUME RecvAssumption ==
    /\ \A conn \in Connections :
         /\ conn.lines \in Seq(Nat)
         /\ conn.encrypted \subseteq {i \in DOMAIN conn.lines : conn.lines[i] > 0}
         /\ conn.binary \subseteq DOMAIN conn.lines \ conn.encrypted
         /\ conn.bufLen \in Nat \ {0}
         /\ conn.whole \in BOOLEAN
    /\ Capacity \in Nat /\ TruncateTo \in 0..Capacity

VARIABLES
    conn,       \* the connection
    arrived,    \* how much of its stream the server has sent
    received,   \* received_buffer
    processed,  \* processed_incoming_buffer
    app,        \* the lines the application was given, by number
    ret,        \* return value of the last call, -1 while none has returned
    pc          \* where the receiving thread is in its call

recvVars == <<conn, arrived, received, processed, app, ret, pc>>

CR == <<0, 1>>
LF == <<0, 2>>
EOL == <<CR, LF>>

BufLen == conn.bufLen
Lines == DOMAIN conn.lines
LineText(i) == [j \in 1..conn.lines[i] |-> <<i, j>>]
Stream == FlattenSeq([i \in Lines |-> LineText(i) \o EOL])

Drop(s, n) == SubSeq(s, n + 1, Len(s))

\* A line without the CR or LF that a cut in the wrong place leaves on it.
Bare(text) == SelectSeq(text, LAMBDA x : x \notin {CR, LF})

\* The engine chain, on_incoming_irc_line of the registered engines, which
\* splits a line at white space.
Engine(text) ==
    IF \E i \in conn.encrypted : Bare(text) = LineText(i)
    THEN <<<<Bare(text)[1][1], 0>>>> ELSE text

\* String::from_utf8_lossy: each invalid byte becomes the three bytes of U+FFFD,
\* which name the byte that they stand for here.
Lossy(text) ==
    FlattenSeq([j \in DOMAIN text |->
        IF text[j][1] \in conn.binary THEN <<text[j], text[j], text[j]>> ELSE <<text[j]>>])

StreamTokens == {CR, LF} \cup {x \in Lines \X Nat : x[2] <= conn.lines[x[1]]}

RecvTypeOK ==
    /\ conn \in Connections
    /\ arrived \in 0..Len(Stream)
    /\ Range(received) \cup Range(processed) \subseteq StreamTokens
    /\ Range(app) \subseteq Lines \cup {0}
    /\ ret \in -1..BufLen
    /\ pc \in {"app", "process", "return", "closed"}

RecvInit ==
    /\ conn \in Connections
    /\ arrived = 0
    /\ received = <<>>
    /\ processed = <<>>
    /\ app = <<>>
    /\ ret = -1
    /\ pc = "app"

-----------------------------------------------------------------------------
\* (Mutant: the overflow is computed from the old data alone.)
WrittenLate(data) ==
    IF Len(received) > Capacity
    THEN Drop(received, Len(received) - TruncateTo) \o data
    ELSE received \o data

\* write_received_data: the oldest data goes when the buffer would overflow.
Written(data) ==
    LET total == Len(received) + Len(data)
        overflow == total - TruncateTo
    IN  IF total <= Capacity THEN received \o data
        ELSE IF overflow < Len(received) THEN Drop(received, overflow) \o data
        ELSE data

\* The original function returns n > 0 tokens; they are written to the buffer.
Receive(n) ==
    /\ pc = "app"
    /\ arrived + n <= Len(Stream) /\ n <= BufLen
    /\ conn.whole => Stream[arrived + n] = LF
    /\ received' = Written([j \in 1..n |-> Stream[arrived + j]])
    /\ arrived' = arrived + n
    /\ pc' = "process"
    /\ UNCHANGED <<conn, processed, app, ret>>

\* The server has closed the connection: recv returns 0.
ReceiveClose ==
    /\ pc = "app"
    /\ arrived = Len(Stream)
    /\ ret' = 0
    /\ pc' = "closed"
    /\ UNCHANGED <<conn, arrived, received, processed, app>>

-----------------------------------------------------------------------------
(* process_received_lines.                                                 *)

NotEmpty(text) == text # <<>>

EndsLine(text) == IsSuffix(EOL, text)

\* What lies between the ends of lines, each end k being n tokens long.
Split(text, ends, n) ==
    LET after(k) == {e \in ends : e > k}
        from[k \in 0..Len(text)] ==
            IF after(k) = {} THEN <<Drop(text, k)>>
            ELSE <<SubSeq(text, k + 1, Min(after(k)) - n)>> \o from[Min(after(k))]
    IN  from[0]

Ends(text) == {k \in DOMAIN text : k > 1 /\ SubSeq(text, k - 1, k) = EOL}

\* The last of these segments.
LastOf(text, ends) == Drop(text, Max({0} \cup ends))

\* split("\r\n"): always at least one segment, the last one without EOL.
Segments(text) == Split(text, Ends(text), 2)

\* split at every '\r', for data that is not UTF-8: what follows a line still
\* starts with its LF.
EndsAtCR(text) == {k \in DOMAIN text : text[k] = CR}
SegmentsAtCR(text) == Split(text, EndsAtCR(text), 1)

ChopLF(text) == IF text # <<>> /\ Last(text) = LF THEN Front(text) ELSE text

Utf8Text(text) == \A x \in Range(text) : x[1] \notin conn.binary

\* The given segments go through the engines; received_buffer keeps some text.
Processed(segs, keep) ==
    LET texts == SelectSeq(segs, NotEmpty)
    IN  /\ pc = "process"
        /\ processed' = processed \o
               FlattenSeq([i \in DOMAIN texts |-> Engine(texts[i]) \o EOL])
        /\ received' = keep
        /\ pc' = "return"
        /\ UNCHANGED <<conn, arrived, app, ret>>

\* (Mutant: the trailing partial line is not put back.)
ProcessForgets == Utf8Text(received) /\ Processed(Segments(received), <<>>)

\* (Mutant: the trailing partial line is left out of the loop, nothing else.)
ProcessComplete ==
    /\ Utf8Text(received)
    /\ Processed(Front(Segments(received)), LastOf(received, Ends(received)))

\* UTF-8 data.  The test meant for a partial last segment asks that it be
\* empty, so the segment goes through the engines like the others, gets an EOL
\* of its own and is kept for the next call too.
Process ==
    Utf8Text(received) /\ Processed(Segments(received), LastOf(received, Ends(received)))

\* Other data, converted segment by segment, which makes them longer.
ProcessLossy ==
    LET segs == SegmentsAtCR(received)
    IN  /\ ~Utf8Text(received)
        /\ Processed([i \in DOMAIN segs |-> Lossy(ChopLF(segs[i]))],
                     IF EndsLine(received) THEN <<>> ELSE LastOf(received, EndsAtCR(received)))

-----------------------------------------------------------------------------
\* The lines in a text by number, 0 for one that is not as the server sent it
\* (converted, if need be) or not as the engines return it; the empty ones are
\* left out.
LineNumbers(text) ==
    FoldLeft(LAMBDA ns, seg :
                 IF Bare(seg) = <<>> THEN ns
                 ELSE Append(ns, Max({0} \cup {i \in Lines : Bare(seg) = Engine(Lossy(LineText(i)))})),
             <<>>, Front(Segments(text)))

\* The last EOL within the application's buffer, 0 if there is none.
Boundary == Max({0} \cup {k \in Ends(processed) : k <= BufLen})

\* (Mutant: the processed buffer is not cleared.)
ReturnKeeps ==
    /\ pc = "return"
    /\ app' = app \o LineNumbers(SubSeq(processed, 1, Boundary))
    /\ ret' = Boundary
    /\ pc' = "app"
    /\ UNCHANGED <<conn, arrived, received, processed>>

\* The complete lines that fit are copied out.  The rest is stored back and
\* then cleared with the buffer.
Return ==
    /\ pc = "return"
    /\ app' = app \o LineNumbers(SubSeq(processed, 1, Boundary))
    /\ ret' = Boundary
    /\ processed' = <<>>
    /\ pc' = "app"
    /\ UNCHANGED <<conn, arrived, received>>

RecvNext ==
    \/ \E n \in 1..BufLen : Receive(n)
    \/ ReceiveClose
    \/ Process
    \/ ProcessLossy
    \/ Return

RecvSpec == RecvInit /\ [][RecvNext]_recvVars

\* The application goes on reading as long as the server sends.
RecvFairSpec == RecvSpec /\ WF_recvVars(RecvNext)

-----------------------------------------------------------------------------
(* Properties.                                                             *)

\* s is what remains of t when some of its elements are taken out.
IsSubsequence(s, t) ==
    FoldLeft(LAMBDA n, x : IF n < Len(s) /\ s[n + 1] = x THEN n + 1 ELSE n, 0, t)
        = Len(s)

\* Between two calls the application has been given every complete line
\* received, in order and decrypted (hook_socket.rs: the data not copied are
\* stored "so they survive for the next recv() call").
NothingLost ==
    LET sent == SubSeq(Stream, 1, arrived)
        whole == SelectSeq(Front(Segments(sent)), NotEmpty)
    IN  pc = "app" =>
            IsSubsequence([n \in DOMAIN whole |-> whole[n][1][1]], app)

\* The application's buffer takes the whole stream, as long as the conversion
\* makes it, and received_buffer too.
Roomy == BufLen >= 2 * Len(Lossy(Stream)) /\ Capacity >= Len(Stream)

\* However the stream is cut into chunks, and whatever encoding its lines are
\* in, no complete line is lost as long as everything fits the buffers.
CompleteLinesDelivered == Roomy => NothingLost

\* A return value of 0 tells the application that the connection is closed:
\* it never gets one for data it was sent, unless that is an empty line (or
\* only the end of one).
ZeroOnlyAtClose ==
    pc = "app" /\ ret = 0 /\ Roomy => Stream[arrived] \in {CR, LF}

\* received_buffer stays below its limit although a server that never ends
\* its line is kept in it for ever; only a chunk that alone is over the limit is
\* taken nevertheless (write_received_data empties the buffer for it).
ReceivedBounded == Len(received) <= Max({Capacity, BufLen})

\* Whole lines come in chunks that fit the application's buffer; what the
\* conversion makes of lines that are not UTF-8 may not, and then the complete
\* lines that were left are cleared with it.
Fitting(c) == c.whole /\ (c.binary = {} \/ c.bufLen >= 3 * FoldLeft(+, 0, c.lines) + 2 * Len(c.lines))

\* The lines of such a connection.  (What other connections show of theirs is for
\* CompleteLinesDelivered.)
LinesOf(c) ==
    IF Fitting(c) THEN SelectSeq([i \in DOMAIN c.lines |-> i], LAMBDA i : c.lines[i] > 0)
    ELSE <<>>

\* When the chunks are whole lines that fit, the application sees the line stream,
\* and all of it.
Lined == INSTANCE LineStream WITH
    Sent <- LinesOf,
    source <- conn,
    out <- IF Fitting(conn) THEN app ELSE <<>>

ImplementsLineStream == Lined!Spec
=============================================================================
