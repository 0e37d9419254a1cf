---------------------------- MODULE KeyExchange ----------------------------
(***************************************************************************)
(* The X25519 key exchange between FiSH_11 clients: the script's handlers  *)
(* of X25519_INIT and X25519_FINISH, its table fish11.dh and its timers    *)
(* (scripts/mirc/modules), on top of FiSH11_ExchangeKey and                *)
(* FiSH11_ProcessPublicKey of fish_11_dll.                                 *)
(*                                                                         *)
(* mIRC runs a handler to its end before the next one, so a handler is one *)
(* action; a process that stops in the middle of one has saved a part and  *)
(* sent nothing, which is a failed save or a lost notice and then a        *)
(* restart.  IRC delivers what one client sends another in order.          *)
(***************************************************************************)
EXTENDS Naturals, Sequences, SequencesExt

CONSTANTS
    Clients,
    ManualKeys,     \* the keys users may set by hand
    NoKey,
    MaxPairs,       \* bound on the keypairs a client makes
    MaxLink,        \* bound on the notices in flight from one to another
    MaxFaults       \* bound on lost notices, failed calls and saves, disconnects,
                    \* restarts

ASSUME ExchangeAssumption ==
    /\ MaxPairs \in Nat /\ MaxLink \in Nat /\ MaxFaults \in Nat

\* A key is what it was made of: the shared secret of two public keys, or the
\* random key of a client.
Secret(c, p, d, q) == {<<c, p>>, <<d, q>>}
Random(c) == {<<c, 0>>}

Secrets == {Secret(c, p, d, q) : c, d \in Clients, p, q \in 1..MaxPairs}

\* No user types in a shared secret, and a key that was made is a key.
ASSUME KeyAssumption ==
    /\ NoKey \notin ManualKeys /\ Secrets \cap (ManualKeys \cup {NoKey}) = {}
    /\ NoKey \notin {Random(c) : c \in Clients}

AllKeys == Secrets \cup {Random(c) : c \in Clients} \cup ManualKeys \cup {NoKey}

\* A client's configuration: the number of its keypair, 0 for none, and the
\* key it has for each nickname.
Config == [pair : 0..MaxPairs, keys : [Clients -> AllKeys]]
Notice == [kind : {"INIT", "FINISH"}, pub : 1..MaxPairs]

VARIABLES
    mem,        \* CONFIG of each client
    saved,      \* its configuration file
    made,       \* keypairs each client has ever generated
    dh,         \* the table fish11.dh: whom an exchange is in progress with
    timer,      \* the running timers .timer.fish11_x25519_<nick>
    link,       \* notices in flight from one client to another
    faults,
    disturbed,  \* not in the code: something failed, timed out or was changed
                \* by hand
    untimed     \* not in the code: the exchanges whose timer a disconnect turned off

vars == <<mem, saved, made, dh, timer, link, faults, disturbed, untimed>>

Others(c) == Clients \ {c}
Pairs == {p \in Clients \X Clients : p[1] # p[2]}

TypeOK ==
    /\ mem \in [Clients -> Config]
    /\ saved \in [Clients -> Config]
    /\ made \in [Clients -> 0..MaxPairs]
    /\ dh \in [Clients -> SUBSET Clients]
    /\ timer \in [Clients -> SUBSET Clients]
    /\ link \in [Pairs -> Seq(Notice)]
    /\ faults \in 0..MaxFaults
    /\ disturbed \in BOOLEAN
    /\ untimed \in [Clients -> SUBSET Clients]

Fresh == [pair |-> 0, keys |-> [d \in Clients |-> NoKey]]

Init ==
    /\ mem = [c \in Clients |-> Fresh]
    /\ saved = mem
    /\ made = [c \in Clients |-> 0]
    /\ dh = [c \in Clients |-> {}]
    /\ timer = dh /\ untimed = dh
    /\ link = [p \in Pairs |-> <<>>]
    /\ faults = 0
    /\ disturbed = FALSE

-----------------------------------------------------------------------------
(* The calls into the DLL, as the set of what they may leave: the          *)
(* configuration, the file, whether they succeed and what went wrong.      *)

WithKey(m, d, k) == [m EXCEPT !.keys[d] = k]

\* (Mutant: a new keypair for every exchange.)
WithNewPair(c, m) == [m EXCEPT !.pair = made[c] + 1]

\* get_keypair: the stored keypair, or a new one that is stored.
WithPair(c, m) == IF m.pair = 0 THEN [m EXCEPT !.pair = made[c] + 1] ELSE m

\* FiSH11_ExchangeKey: a random key for d if there is none, the keypair, a
\* save of both.  It may fail before, between and after these steps.  If a key
\* had to be made the last save must succeed; without one nobody looks at
\* whether the keypair could be saved.
ExchangeKey(c, d) ==
    LET m == mem[c]
        keyed == IF m.keys[d] = NoKey THEN WithKey(m, d, Random(c)) ELSE m
        stages == <<m, keyed, WithPair(c, keyed)>>
        full == stages[3]
        files(i) == {saved[c]} \cup {stages[j] : j \in 2..i}
    IN  {[mem |-> full, saved |-> full, ok |-> TRUE, fault |-> 0]}
        \cup (UNION {{[mem |-> stages[i], saved |-> f, ok |-> FALSE, fault |-> 1] :
                         f \in files(i)} : i \in 1..3})
        \cup {[mem |-> full, saved |-> f, ok |-> TRUE, fault |-> 1] :
                  f \in {f \in files(3) : m.keys[d] # NoKey}}

\* FiSH11_ProcessPublicKey: the shared secret takes the place of any key.  The
\* saves may fail; the call does not.
ProcessPublicKey(c, d, pub, m, file) ==
    LET paired == WithPair(c, m)
        done == WithKey(paired, d, Secret(c, paired.pair, d, pub))
    IN  {[mem |-> done, saved |-> done, ok |-> TRUE, fault |-> 0]}
        \cup {[mem |-> done, saved |-> f, ok |-> TRUE, fault |-> 1] : f \in {file, paired}}

\* The handler of c has called the DLL and was left with configuration m.
Called(c, m, file, n) ==
    /\ m.pair <= MaxPairs
    /\ mem' = [mem EXCEPT ![c] = m]
    /\ saved' = [saved EXCEPT ![c] = file]
    /\ made' = [made EXCEPT ![c] = IF m.pair > @ THEN m.pair ELSE @]
    /\ faults + n <= MaxFaults
    /\ faults' = faults + n

\* (Mutant: the timer is started only when the notice is sent.)
StartIfSent(c, d, sent) ==
    /\ dh' = [dh EXCEPT ![c] = @ \cup {d}]
    /\ timer' = IF sent THEN [timer EXCEPT ![c] = @ \cup {d}] ELSE timer
    /\ untimed' = [untimed EXCEPT ![c] = @ \ {d}]

\* The exchange is in progress and will time out, whether or not there is a
\* public key to send.
Start(c, d, sent) ==
    /\ dh' = [dh EXCEPT ![c] = @ \cup {d}]
    /\ timer' = [timer EXCEPT ![c] = @ \cup {d}]
    /\ untimed' = [untimed EXCEPT ![c] = @ \ {d}]

Send(c, d, kind, pub) ==
    link' = [link EXCEPT ![<<c, d>>] = Append(@, [kind |-> kind, pub |-> pub])]

Room(c, d) == Len(link[<<c, d>>]) < MaxLink

\* fish11_X25519_INIT: the user's command, which also restarts an exchange,
\* and on OPEN, which asks for no exchange and no key first.
StartExchange(c, d) ==
    /\ Room(c, d)
    /\ \E r \in ExchangeKey(c, d) :
         /\ Called(c, r.mem, r.saved, r.fault)
         /\ Start(c, d, r.ok)
         /\ IF r.ok THEN Send(c, d, "INIT", r.mem.pair) ELSE UNCHANGED link
         /\ disturbed' = (disturbed \/ r.fault > 0)

\* The first notice from d to c is of this kind.
Arrives(d, c, kind) ==
    link[<<d, c>>] # <<>> /\ Head(link[<<d, c>>]).kind = kind

\* The link after c has taken a notice of d and perhaps answered it.
Taken(d, c, answer) ==
    link' = [link EXCEPT ![<<d, c>>] = Tail(@), ![<<c, d>>] = @ \o answer]

\* (Mutant: a client that has itself started an exchange does not answer.)
AnswersAlone(c, d, ok) == ok /\ d \notin dh[c]

\* Our public key is sent back if ExchangeKey returned one.
Answers(c, d, ok) == ok

\* on NOTICE X25519_INIT of d at c: ExchangeKey, ProcessPublicKey, and the
\* answer.
HandleInit(c, d) ==
    /\ Arrives(d, c, "INIT")
    /\ Room(c, d)
    /\ \E r \in ExchangeKey(c, d) :
       \E q \in ProcessPublicKey(c, d, Head(link[<<d, c>>]).pub, r.mem, r.saved) :
         /\ Called(c, q.mem, q.saved, r.fault + q.fault)
         /\ Taken(d, c, IF Answers(c, d, r.ok)
                        THEN <<[kind |-> "FINISH", pub |-> q.mem.pair]>> ELSE <<>>)
         /\ disturbed' = (disturbed \/ r.fault + q.fault > 0)
    /\ UNCHANGED <<dh, timer, untimed>>

\* on NOTICE X25519_FINISH of d at c, in an exchange in progress.
HandleFinish(c, d) ==
    /\ Arrives(d, c, "FINISH")
    /\ d \in dh[c]
    /\ \E q \in ProcessPublicKey(c, d, Head(link[<<d, c>>]).pub, mem[c], saved[c]) :
         /\ Called(c, q.mem, q.saved, q.fault)
         /\ disturbed' = (disturbed \/ q.fault > 0)
    /\ dh' = [dh EXCEPT ![c] = @ \ {d}]
    /\ Taken(d, c, <<>>)
    /\ UNCHANGED <<timer, untimed>>

\* A FINISH that comes too late is refused.
RefuseFinish(c, d) ==
    /\ Arrives(d, c, "FINISH")
    /\ d \notin dh[c]
    /\ Taken(d, c, <<>>)
    /\ UNCHANGED <<mem, saved, made, dh, timer, faults, disturbed, untimed>>

\* fish11_timeout_keyexchange, which runs after a completed exchange too.
Timeout(c, d) ==
    /\ d \in timer[c]
    /\ timer' = [timer EXCEPT ![c] = @ \ {d}]
    /\ dh' = [dh EXCEPT ![c] = @ \ {d}]
    /\ disturbed' = (disturbed \/ d \in dh[c])
    /\ UNCHANGED <<mem, saved, made, link, faults, untimed>>

-----------------------------------------------------------------------------
(* The surroundings.                                                       *)

\* FiSH11_SetKey and FiSH11_FileDelKey; an expired key is deleted too.  A save that
\* fails leaves the change in memory.
SetKey(c, d, k) ==
    LET m == WithKey(mem[c], d, k)
    IN  /\ mem' = [mem EXCEPT ![c] = m]
        /\ \/ saved' = [saved EXCEPT ![c] = m] /\ UNCHANGED faults
           \/ UNCHANGED saved /\ faults < MaxFaults /\ faults' = faults + 1
        /\ disturbed' = TRUE
        /\ UNCHANGED <<made, dh, timer, link, untimed>>

Lose(c, d) ==
    /\ link[<<c, d>>] # <<>>
    /\ faults < MaxFaults /\ faults' = faults + 1
    /\ link' = [link EXCEPT ![<<c, d>>] = Tail(@)]
    /\ disturbed' = TRUE
    /\ UNCHANGED <<mem, saved, made, dh, timer, untimed>>

\* The client loses its connection and connects again.  Its timers were started
\* without -o, so mIRC turns them off; fish11.dh stays as it is.  What was on its way
\* to the client is lost, what it had sent may still arrive.
Disconnect(c) ==
    /\ faults < MaxFaults /\ faults' = faults + 1
    /\ timer' = [timer EXCEPT ![c] = {}]
    /\ untimed' = [untimed EXCEPT ![c] = @ \cup timer[c]]
    /\ \E arrives \in BOOLEAN :
         link' = [p \in Pairs |-> IF c = p[2] \/ (c = p[1] /\ ~arrives) THEN <<>> ELSE link[p]]
    /\ disturbed' = TRUE
    /\ UNCHANGED <<mem, saved, made, dh>>

\* (Mutant: the keypair is not read back.)
ReloadedUnpaired(c) == [saved[c] EXCEPT !.pair = 0]

\* What ini_to_config reads back: the keypair and the keys.
Reloaded(c) == saved[c]

\* The client starts again: hash tables and timers are gone, and what was in
\* flight is lost with its connection.
Restart(c) ==
    /\ faults < MaxFaults /\ faults' = faults + 1
    /\ mem' = [mem EXCEPT ![c] = Reloaded(c)]
    /\ dh' = [dh EXCEPT ![c] = {}]
    /\ timer' = [timer EXCEPT ![c] = {}]
    /\ untimed' = [untimed EXCEPT ![c] = {}]
    /\ link' = [p \in Pairs |-> IF c \in {p[1], p[2]} THEN <<>> ELSE link[p]]
    /\ disturbed' = TRUE
    /\ UNCHANGED <<saved, made>>

Handle(c, d) == HandleInit(c, d) \/ HandleFinish(c, d) \/ RefuseFinish(c, d)

Next ==
    \/ \E c \in Clients : \E d \in Others(c) :
         \/ StartExchange(c, d) \/ Handle(c, d) \/ Timeout(c, d) \/ Lose(c, d)
         \/ \E k \in ManualKeys \cup {NoKey} : SetKey(c, d, k)
    \/ \E c \in Clients : Disconnect(c) \/ Restart(c)

Spec == Init /\ [][Next]_vars

\* A timer that is not turned off runs out.  Nothing is assumed of the network or of
\* the users.
FairSpec == Spec /\ \A c \in Clients : \A d \in Others(c) : WF_vars(Timeout(c, d))

-----------------------------------------------------------------------------
(* Properties.                                                             *)

\* When the script says "key exchange complete" the two clients hold the same
\* key, unless the other one's was changed by hand since it answered: crossing
\* exchanges, restarts, lost keypairs and late notices never leave them with
\* two different shared secrets.
CompleteMeansShared ==
    [][\A c \in Clients : \A d \in Others(c) :
          /\ HandleFinish(c, d)
          /\ mem[d].keys[c] \in Secrets
          => mem'[c].keys[d] = mem[d].keys[c]]_vars

\* ExchangeKey puts a random key in place before the other side has answered.
\* As long as nothing fails, such a key is there only while the answer that
\* will replace it is on its way.
NoStrandedKey ==
    \A c \in Clients : \A d \in Others(c) :
        ~disturbed /\ mem[c].keys[d] = Random(c) =>
            /\ d \in dh[c]
            /\ \/ \E i \in DOMAIN link[<<c, d>>] : link[<<c, d>>][i].kind = "INIT"
               \/ \E i \in DOMAIN link[<<d, c>>] : link[<<d, c>>][i].kind = "FINISH"

\* Whatever was saved when the process stopped, a shared secret that a client
\* holds was made with the keypair it holds.
SecretsOverOwnPair ==
    \A c \in Clients : \A d \in Others(c) :
        mem[c].keys[d] \in Secrets => <<c, mem[c].pair>> \in mem[c].keys[d]

\* An exchange does not stay in progress, whatever fails: it would keep on OPEN from
\* starting another one.  Only a disconnect leaves one in progress for good, unless
\* an answer still arrives or the user starts another.
ExchangesEnd ==
    \A c \in Clients : \A d \in Others(c) :
        d \in dh[c] ~> d \notin dh[c] \/ d \in untimed[c]
=============================================================================
