----------------------------- MODULE CommandLine -----------------------------
(***************************************************************************)
(* Processes that load fish_11.dll over the same configuration files:      *)
(* the runs of fish_11_cli (fish_11_cli/src/main.rs), each a process that  *)
(* loads the library, calls one of its functions and ends, and mIRC, which *)
(* keeps it loaded (dll_interface/core.rs).  The functions are called with *)
(* one buffer for their input and their answer (unified_error.rs,          *)
(* buffer_utils.rs).                                                       *)
(*                                                                         *)
(* Every process has the whole configuration in memory, read when the      *)
(* library is loaded, and every call that may change it writes the whole   *)
(* of it back, through the same temporary file.  A save is one step here,  *)
(* with the outcomes it may have (ConfigAccess models how it is made): it  *)
(* may fail, which the caller is not told, and may be torn by another      *)
(* process that saves meanwhile.  Expiry is left to KeyStore, and the      *)
(* timer thread, which only prints, is left out.                           *)
(***************************************************************************)
EXTENDS Integers, Sequences, FiniteSets

CONSTANTS
    Runs,           \* processes of fish_11_cli
    Host,           \* the process of mIRC
    Nicks, Channels, Networks, Keys,
    Tagged,         \* nicknames that begin with a word in brackets
    DefaultNet,     \* the network called "default"
    NoNet,          \* no network mapped, set or given
    NoKey,          \* no entry
    MarkText, MarkPosition,     \* the names mark_encrypted and mark_position
    Texts,          \* values of a setting that is a text
    NoText,         \* the empty one
    DefaultText,    \* the one a new configuration has
    Dirs,           \* directories that may hold a fish_11.ini
    WorkDir,        \* where processes work that have no MIRCDIR
    RunDirs,        \* directories in which fish_11_cli is run
    Library,        \* path of the library; any other is not loaded
    Unsafe,         \* an argument with "../" in it
    Control,        \* an argument with a control character in it
    Requests,       \* command lines: path, command, parameters
    HostRequests,   \* calls of the mIRC scripts: function, parameters
    Saved,          \* what a fish_11.ini may hold at first
    LineCap,        \* lines of a listing that fit an answer
    MaxCalls        \* bound on the runs of fish_11_cli and the calls of mIRC

Names == Nicks \cup Channels \cup Tagged
Procs == Runs \cup {Host}
Slots == Names \X Networks

\* Commands written as options, -gk or --genkey and so on, stand for words.
Alias ==
    [gk |-> "genkey", gk2 |-> "getkey", sk |-> "setkey", dk |-> "delkey",
     skp |-> "setkeyfromplaintext", lk |-> "listkeys", li |-> "listkeysitem", sn |-> "setnetwork",
     sm |-> "setmircdir", gcp |-> "getconfigpath", is |-> "ini_getstring", ii |-> "ini_getint",
     l |-> "list", h |-> "help"]

Command(word) == IF word \in DOMAIN Alias THEN Alias[word] ELSE word

\* The function each command calls.
Function ==
    [genkey |-> "GenKey", setkey |-> "SetKey", getkey |-> "FileGetKey",
     setkeyfromplaintext |-> "SetKeyFromPlaintext", delkey |-> "FileDelKey",
     listkeys |-> "FileListKeys", listfiles |-> "FileListKeys",
     listkeysitem |-> "FileListKeysItem", setnetwork |-> "SetNetwork",
     setmircdir |-> "SetMircDir", getconfigpath |-> "GetConfigPath", ini_getstring |-> "INI_GetString",
     ini_getint |-> "INI_GetInt"]

\* Parameters a command must have for fish_11_cli to make the call.
Required ==
    [genkey |-> 1, setkey |-> 2, setkeyfromplaintext |-> 2, getkey |-> 1, delkey |-> 1,
     listkeys |-> 0, listfiles |-> 0, listkeysitem |-> 0, setnetwork |-> 0,
     setmircdir |-> 0, getconfigpath |-> 0, ini_getstring |-> 1, ini_getint |-> 1]

ASSUME CommandLineAssumption ==
    /\ Host \notin Runs
    /\ DefaultNet \in Networks /\ NoNet \notin Networks /\ NoKey \notin Keys
    /\ Nicks \cap Channels = {} /\ Nicks \cap Tagged = {} /\ Channels \cap Tagged = {}
    /\ WorkDir \in Dirs /\ RunDirs \subseteq Dirs
    /\ LineCap \in Nat \ {0} /\ MaxCalls \in Nat
    /\ {DefaultText, NoText} \subseteq Texts /\ MarkText # MarkPosition

\* The section of the settings, with one that is a text and one of a byte.
Settings == {f \in [{MarkText, MarkPosition} -> Texts \cup 0..255] :
                f[MarkText] \in Texts /\ f[MarkPosition] \in 0..255}

Config == [keys : [Slots -> Keys \cup {NoKey}], nets : [Names -> Networks \cup {NoNet}],
           fish11 : Settings]
ASSUME SavedAssumption == Saved \subseteq Config

Empty == [keys |-> [s \in Slots |-> NoKey], nets |-> [n \in Names |-> NoNet],
          fish11 |-> [s \in {MarkText, MarkPosition} |-> IF s = MarkText THEN DefaultText ELSE 1]]

\* What the library writes into the caller's buffer.
NoAnswer     == [is |-> "none"]
Done         == [is |-> "done"]
Failed       == [is |-> "error"]
KeyText(key) == [is |-> "key", key |-> key]
Value(v)     == [is |-> "value", value |-> v]

VARIABLES
    file,       \* the fish_11.ini of each directory
    at,         \* where each process is
    memory,     \* CONFIG of each process
    dir,        \* the directory get_config_path gives in each process
    current,    \* CURRENT_NETWORK of each process
    call,       \* the function being called and its parameters
    next,       \* what fish_11_cli calls after it
    answer,     \* the answer to the call
    calls,      \* runs and calls made
    inStep,     \* not in the code: the file is as it read or saved it last
    told        \* not in the code: the key a finished SetKey left for a nickname

process == <<at, memory, dir, current, call, next, answer>>
ghosts  == <<inStep, told>>
cliVars == <<file, process, calls, ghosts>>

NoCall == [function |-> "none", params |-> <<>>]

CliTypeOK ==
    /\ file \in [Dirs -> Config]
    /\ at \in [Procs -> {"off", "ready", "call", "map", "answer"}]
    /\ memory \in [Procs -> Config]
    /\ dir \in [Procs -> Dirs]
    /\ current \in [Procs -> Networks \cup {NoNet}]
    /\ \A p \in Procs : DOMAIN call[p] = {"function", "params"}
    /\ next \in [Procs -> {"none", "FileGetKey"}]
    /\ \A p \in Procs : answer[p].is \in {"none", "done", "error", "key", "list", "item", "value"}
    /\ calls \in 0..MaxCalls
    /\ inStep \in [Procs -> BOOLEAN]
    /\ told \in [Dirs -> [Nicks -> Keys \cup {NoKey}]]

CliInit ==
    /\ file \in [Dirs -> Saved]
    /\ at = [p \in Procs |-> "off"]
    /\ memory = [p \in Procs |-> Empty]
    /\ dir = [p \in Procs |-> WorkDir]
    /\ current = [p \in Procs |-> NoNet]
    /\ call = [p \in Procs |-> NoCall]
    /\ next = [p \in Procs |-> "none"]
    /\ answer = [p \in Procs |-> NoAnswer]
    /\ calls = 0
    /\ inStep = [p \in Procs |-> TRUE]
    /\ told = [d \in Dirs |-> [n \in Nicks |-> NoKey]]

-----------------------------------------------------------------------------
(* fish_11_cli up to its call.                                             *)

\* validate_argument, validate_command_name and validate_dll_path.
ArgumentAccepted(x) == x # Unsafe
NameAccepted(command) == command # "invalid"
PathAccepted(path) == path = Library

\* main refuses a command line before it loads anything, or answers it itself.
Accepted(r) ==
    /\ \A i \in DOMAIN r.params : ArgumentAccepted(r.params[i])
    /\ NameAccepted(Command(r.command))
    /\ Command(r.command) \notin {"help", "list"}
    /\ PathAccepted(r.path)

\* The configuration with these entries and mappings only.
Only(c, slots, names) ==
    [c EXCEPT !.keys = [s \in Slots |-> IF s \in slots THEN @[s] ELSE NoKey],
              !.nets = [n \in Names |-> IF n \in names THEN @[n] ELSE NoNet]]

\* "[tag]bob@net=key" is to the INI reader the head of a section "tag": what
\* comes after it in the file is no longer an entry of [Keys].
Misread(c) == \E s \in Slots : s[1] \in Tagged /\ c.keys[s] # NoKey

\* What load_config may make of a file: a line that starts with '#' is a comment
\* to the INI reader, so nothing of a channel is read back; nor is a tagged name,
\* nor what happens to come after it.
Loaded(c) ==
    LET slots == {s \in Slots : s[1] \in Nicks}
    IN  {Only(c, x, y) :
            x \in IF Misread(c) THEN SUBSET slots ELSE {slots},
            y \in IF \E n \in Tagged : c.nets[n] # NoNet THEN SUBSET Nicks ELSE {Nicks}}

\* sanitize_dll_input: neither control characters nor NUL.
InputAccepted(params) == \A i \in DOMAIN params : params[i] # Control

\* After the library is loaded: the command is one of those known, with enough
\* parameters (validate_command_args).
Callable(command, params) ==
    /\ command \in DOMAIN Function
    /\ Len(params) >= Required[command]
    /\ InputAccepted(params)

\* What a call must be given: a directory is one of Dirs, a network one of
\* Networks, a text one of Texts.
ParamsTyped(function, ps) ==
    /\ function = "SetMircDir" /\ ps # <<>> => ps[1] \in Dirs
    /\ function = "SetNetwork" /\ ps # <<>> => ps[1] \in Networks
    /\ function = "GenKey" /\ Len(ps) > 1 => ps[2] \in Networks
    /\ function \in {"SetKey", "SetKeyFromPlaintext"} /\ Len(ps) = 3 => ps[1] \in Networks
    /\ function \in {"INI_SetString", "INI_SetInt"} => ps # <<>>
    /\ function = "INI_SetString" /\ Len(ps) # 1 /\ ps[1] = MarkText => ps[2] \in Texts
    /\ function = "INI_SetInt" /\ Len(ps) = 2 /\ ps[1] = MarkPosition => ps[2] \in Int

ASSUME RequestAssumption ==
    /\ \A r \in Requests :
         Accepted(r) /\ Callable(Command(r.command), r.params) =>
             ParamsTyped(Function[Command(r.command)], r.params)
    /\ \A r \in HostRequests : ParamsTyped(r.function, r.params)

\* call_dll_function: the parameters are put in the buffer of the call.
Enter(p, function, params) ==
    /\ at' = [at EXCEPT ![p] = "call"]
    /\ call' = [call EXCEPT ![p] = [function |-> function, params |-> params]]

\* CONFIG: the file of the directory, or the defaults, without an error, if it
\* could not be read or locked.
ReadConfig(p, d) ==
    \/ /\ \E c \in Loaded(file[d]) : memory' = [memory EXCEPT ![p] = c]
       /\ inStep' = [inStep EXCEPT ![p] = ~Misread(file[d])]
    \/ /\ file[d] # Empty
       /\ memory' = [memory EXCEPT ![p] = Empty]
       /\ inStep' = [inStep EXCEPT ![p] = FALSE]

\* main: a line that is accepted makes a process that loads the library, which
\* reads the configuration, and goes on if the call can be made; any other line
\* changes nothing.  MIRCDIR is inherited.  After GenKey, whatever it answers,
\* fish_11_cli asks for the key.
Invoke(p, r, d) ==
    LET command == Command(r.command)
    IN  /\ at[p] = "off" /\ p \in Runs
        /\ calls < MaxCalls /\ calls' = calls + 1
        /\ Accepted(r)
        /\ Callable(command, r.params)
        /\ Enter(p, Function[command], r.params)
        /\ dir' = [dir EXCEPT ![p] = d]
        /\ ReadConfig(p, d)
        /\ next' = [next EXCEPT ![p] = IF command = "genkey" THEN "FileGetKey" ELSE "none"]
        /\ UNCHANGED <<file, current, answer, told>>

\* The library is unloaded, with the process or before it.
Off(p) ==
    /\ at' = [at EXCEPT ![p] = "off"]
    /\ memory' = [memory EXCEPT ![p] = Empty]
    /\ current' = [current EXCEPT ![p] = NoNet]
    /\ call' = [call EXCEPT ![p] = NoCall]
    /\ next' = [next EXCEPT ![p] = "none"]
    /\ answer' = [answer EXCEPT ![p] = NoAnswer]
    /\ inStep' = [inStep EXCEPT ![p] = TRUE]

-----------------------------------------------------------------------------
(* mIRC: it loads the library at the first call of a script, and SetMircDir *)
(* is a call like any other.                                               *)

HostLoad ==
    /\ at[Host] = "off"
    /\ calls < MaxCalls
    /\ at' = [at EXCEPT ![Host] = "ready"]
    /\ ReadConfig(Host, dir[Host])
    /\ UNCHANGED <<file, dir, current, call, next, answer, calls, told>>

HostCall(r) ==
    /\ at[Host] = "ready"
    /\ calls < MaxCalls /\ calls' = calls + 1
    /\ Enter(Host, r.function, r.params)
    /\ UNCHANGED <<file, memory, dir, current, next, answer, ghosts>>

\* A run is interrupted or mIRC ends, at any point.
End(p) ==
    /\ at[p] # "off"
    /\ Off(p)
    /\ dir' = [dir EXCEPT ![p] = WorkDir]
    /\ UNCHANGED <<file, calls, told>>

\* UnloadDll between two calls: MIRCDIR stays in the environment of mIRC.
HostUnload ==
    /\ at[Host] = "ready"
    /\ Off(Host)
    /\ UNCHANGED <<file, dir, calls, told>>

-----------------------------------------------------------------------------
(* What the functions read and write.                                      *)

Orelse(a, b) == IF a # NoNet THEN a ELSE b

\* resolve_network_name: given > current > mapping > "default".
ResolveFull(p, name, given) ==
    Orelse(given, Orelse(current[p], Orelse(memory[p].nets[name], DefaultNet)))

\* (Mutant: any network's entry will do, before the one that was asked for.)
FoundAnywhere(c, name) ==
    LET others == {w \in Networks : c.keys[<<name, w>>] # NoKey}
    IN  IF others = {} THEN {Failed} ELSE {KeyText(c.keys[<<name, w>>]) : w \in others}

\* get_key_default: the entry of "default", else any of the nickname's.  Keys
\* of channels are not looked for among the entries, and what they are looked
\* for among is in no file.
Found(c, name) ==
    LET others == {w \in Networks : c.keys[<<name, w>>] # NoKey}
    IN  IF name \in Channels \/ others = {} THEN {Failed}
        ELSE IF c.keys[<<name, DefaultNet>>] # NoKey THEN {KeyText(c.keys[<<name, DefaultNet>>])}
        ELSE {KeyText(c.keys[<<name, w>>]) : w \in others}

Entries(c) == {s \in Slots : c.keys[s] # NoKey}

\* write_cstring_to_buffer cuts a text that is longer than the buffer, or than
\* mIRC takes.  The text is a heading, these lines in no fixed order and a
\* closing line.
Cut(lines) ==
    {[is |-> "list", slots |-> cut, closed |-> Cardinality(lines) + 2 <= LineCap] :
        cut \in IF Cardinality(lines) < LineCap THEN {lines}
                ELSE {x \in SUBSET lines : Cardinality(x) = LineCap - 1}}

\* FiSH11_FileListKeys.
Listing(c) == IF Entries(c) = {} THEN {Done} ELSE Cut(Entries(c))

\* The functions that save, and who else is at it in the directory of p: all of
\* them write to the same fish_11.tmp before it is renamed.
SavingFunctions ==
    {"GenKey", "SetKey", "SetKeyFromPlaintext", "FileDelKey", "INI_SetString", "INI_SetInt"}

AlsoSaving(p) ==
    {q \in Procs \ {p} :
        /\ dir[q] = dir[p]
        /\ \/ at[q] = "map"
           \/ at[q] = "call" /\ call[q].function \in SavingFunctions}

\* The file that is renamed may then be empty, or end among the entries of either,
\* the entries being the last section written.
Mixed(p, c) ==
    IF AlsoSaving(p) = {} THEN {}
    ELSE {Empty} \cup
         UNION {{Only(m, slots, Names) : slots \in SUBSET Entries(m)} :
                    m \in {c} \cup {memory[q] : q \in AlsoSaving(p)}}

\* with_config_mut saves the memory it leaves, also after an error: the file of
\* the directory the process has now gets the whole of it, unless the save fails,
\* which is only logged.
Save(p, c) ==
    \E f \in {c, file[dir[p]]} \cup Mixed(p, c) :
        /\ memory' = [memory EXCEPT ![p] = c]
        /\ file' = [file EXCEPT ![dir[p]] = f]
        /\ inStep' = [q \in Procs |->
               IF q = p THEN f = c ELSE inStep[q] /\ (dir[q] # dir[p] \/ f = file[dir[p]])]

\* not in the code: p's save left the keys of other names as they were.
Kept(p) == file' = file \/ (inStep[p] /\ inStep'[p])

\* not in the code: what is known of a directory's keys after p saved, having
\* changed nothing but the entries of the nickname.
Untold(p, name) ==
    told' = [told EXCEPT ![dir[p]] =
        [n \in Nicks |-> IF n # name /\ Kept(p) THEN @[n] ELSE NoKey]]

\* The function returns an error, or a text that changed nothing.
Answers(p, text) ==
    /\ at' = [at EXCEPT ![p] = "answer"]
    /\ answer' = [answer EXCEPT ![p] = text]
    /\ UNCHANGED <<dir, current, call, next, calls>>

Reply(p, text) ==
    /\ Answers(p, text)
    /\ UNCHANGED <<file, memory, ghosts>>

Calling(p, function) == at[p] = "call" /\ call[p].function = function

-----------------------------------------------------------------------------
(* The functions, from the parameters in the buffer to the answer in it.   *)

\* set_key, first critical section: the entry is written, and then the mapping.
Store(p, name, net, key) ==
    /\ Save(p, [memory[p] EXCEPT !.keys[<<name, net>>] = key])
    /\ Untold(p, name)
    /\ at' = [at EXCEPT ![p] = "map"]
    /\ UNCHANGED <<dir, current, call, next, answer, calls>>

\* The parameters of a call of set_key: target and network given.
Target(c) == IF c.function = "GenKey" THEN c.params[1] ELSE c.params[Len(c.params) - 1]
Given(c)  == IF c.function = "GenKey"
             THEN IF Len(c.params) > 1 THEN c.params[2] ELSE NoNet
             ELSE IF Len(c.params) = 3 THEN c.params[1] ELSE NoNet

\* (Mutant: set_key looks for an entry named as in an older version only.)
GenKeyReplaces(p) ==
    LET name == Target(call[p])
    IN  /\ Calling(p, "GenKey")
        /\ \E key \in Keys : Store(p, name, ResolveFull(p, name, Given(call[p])), key)

\* FiSH11_GenKey <target> [network]: a fresh key, which replaces none.
GenKey(p) ==
    LET name == Target(call[p])
        net  == ResolveFull(p, name, Given(call[p]))
    IN  /\ Calling(p, "GenKey")
        /\ \/ /\ memory[p].keys[<<name, net>>] = NoKey
              /\ \E key \in Keys :
                   /\ \A d \in Dirs, s \in Slots : file[d].keys[s] # key
                   /\ Store(p, name, net, key)
           \/ /\ memory[p].keys[<<name, net>>] # NoKey
              /\ Save(p, memory[p])
              /\ Untold(p, NoKey)
              /\ Answers(p, Failed)

\* A key given with its target and, for SetKey, its network.
SetGiven(p, function, lengths) ==
    LET ps   == call[p].params
        good == Len(ps) \in lengths /\ ps[Len(ps)] \in Keys
        name == Target(call[p])
    IN  /\ Calling(p, function)
        /\ \/ good /\ Store(p, name, ResolveFull(p, name, Given(call[p])), ps[Len(ps)])
           \/ ~good /\ Reply(p, Failed)

\* FiSH11_SetKey <network> <target> <key>: two parameters are not enough.
SetKey(p) == SetGiven(p, "SetKey", {3})

\* FiSH11_SetKeyFromPlaintext [network] <target> <text>; a member of Keys
\* stands for the key derived from the text, the target and the network given.
SetKeyFromPlaintext(p) == SetGiven(p, "SetKeyFromPlaintext", {2, 3})

\* set_key, second critical section: the mapping, resolved by other rules
\* (given > current > "default").
SetMapping(p) ==
    LET name == Target(call[p])
        net  == Orelse(Given(call[p]), Orelse(current[p], DefaultNet))
    IN  /\ at[p] = "map"
        /\ Save(p, [memory[p] EXCEPT !.nets[name] = net])
        /\ told' = [told EXCEPT ![dir[p]] = [n \in Nicks |->
               IF n = name /\ inStep'[p] /\ call[p].function = "SetKey" /\ net = DefaultNet
               THEN call[p].params[3]
               ELSE IF Kept(p) THEN @[n] ELSE NoKey]]
        /\ Answers(p, Done)

\* FiSH11_FileGetKey <target>.
FileGetKey(p) ==
    /\ Calling(p, "FileGetKey")
    /\ \E text \in Found(memory[p], call[p].params[1]) : Reply(p, text)

\* FiSH11_FileDelKey [network] <target>: without a network, that of "default".
\* An error saves too.
FileDelKey(p) ==
    LET ps   == call[p].params
        name == ps[Len(ps)]
        net  == IF Len(ps) = 2 THEN ps[1] ELSE DefaultNet
    IN  /\ Calling(p, "FileDelKey")
        /\ Save(p, [memory[p] EXCEPT !.keys[<<name, net>>] = NoKey])
        /\ Untold(p, name)
        /\ Answers(p, IF memory[p].keys[<<name, net>>] # NoKey THEN Done ELSE Failed)

\* FiSH11_FileListKeys: its parameter is not looked at.
FileListKeys(p) ==
    /\ Calling(p, "FileListKeys")
    /\ \E text \in Listing(memory[p]) : Reply(p, text)

\* FiSH11_FileListKeysItem <index>: the order of the entries is not fixed.
FileListKeysItem(p) ==
    /\ Calling(p, "FileListKeysItem")
    /\ \/ call[p].params = <<>> /\ Reply(p, Failed)
       \/ /\ call[p].params # <<>>
          /\ \/ call[p].params[1] >= Cardinality(Entries(memory[p])) /\ Reply(p, Done)
             \/ /\ call[p].params[1] < Cardinality(Entries(memory[p]))
                /\ \E s \in Entries(memory[p]) : Reply(p, [is |-> "item", slot |-> s])

\* FiSH11_SetNetwork <network>: the network of this process.
SetNetwork(p) ==
    LET ps == call[p].params
    IN  /\ Calling(p, "SetNetwork")
        /\ at' = [at EXCEPT ![p] = "answer"]
        /\ current' = [current EXCEPT ![p] = IF ps = <<>> THEN @ ELSE ps[1]]
        /\ answer' = [answer EXCEPT ![p] = IF ps = <<>> THEN Failed ELSE Done]
        /\ UNCHANGED <<file, memory, dir, call, next, calls, ghosts>>

\* FiSH11_SetMircDir <directory>: later saves go there.  What was loaded stays.
SetMircDir(p) ==
    LET ps == call[p].params
    IN  /\ Calling(p, "SetMircDir")
        /\ at' = [at EXCEPT ![p] = "answer"]
        /\ dir' = [dir EXCEPT ![p] = IF ps = <<>> THEN @ ELSE ps[1]]
        /\ answer' = [answer EXCEPT ![p] = IF ps = <<>> THEN Failed ELSE Done]
        /\ inStep' = [inStep EXCEPT ![p] = @ /\ dir'[p] = dir[p]]
        /\ UNCHANGED <<file, memory, current, call, next, calls, told>>

\* A name the library does not know is no error: there is the default given
\* with it, or what is set for it goes nowhere.
Known(function) == IF function \in {"INI_GetString", "INI_SetString"}
                   THEN {MarkText} ELSE {MarkPosition}

\* INI_GetString and INI_GetInt <name> [default].
IniGet(p, function) ==
    LET ps == call[p].params
    IN  /\ Calling(p, function)
        /\ Reply(p, CASE ps = <<>>              -> Failed
                     [] ps # <<>> /\ ps[1] \in Known(function) -> Value(memory[p].fish11[ps[1]])
                     [] OTHER                   -> Done)

\* update_fish11_config writes the section that was copied out by
\* get_fish11_config, and nothing of the process changes it in between.
Update(p, fish11) ==
    /\ Save(p, [memory[p] EXCEPT !.fish11 = fish11])
    /\ Untold(p, NoKey)
    /\ Answers(p, Done)

\* INI_SetString <name> [text] and INI_SetInt <name> <integer>, of which a byte
\* is kept.
IniSet(p, function) ==
    LET ps    == call[p].params
        value == IF Len(ps) = 1 THEN NoText
                 ELSE IF function = "INI_SetInt" THEN ps[2] % 256 ELSE ps[2]
    IN  /\ Calling(p, function)
        /\ \/ function = "INI_SetInt" /\ Len(ps) = 1 /\ Reply(p, Failed)
           \/ /\ function = "INI_SetString" \/ Len(ps) = 2
              /\ Update(p, IF ps[1] \in Known(function)
                           THEN [memory[p].fish11 EXCEPT ![ps[1]] = value]
                           ELSE memory[p].fish11)

\* FiSH11_GetConfigPath.
GetConfigPath(p) == Calling(p, "GetConfigPath") /\ Reply(p, Value(dir[p]))

\* fish_11_cli shows the answer and ends.
Return(p) ==
    /\ at[p] = "answer" /\ p \in Runs
    /\ next[p] = "none"
    /\ Off(p)
    /\ dir' = [dir EXCEPT ![p] = WorkDir]
    /\ UNCHANGED <<file, calls, told>>

\* genkey: a second call, with the first of the parameters.
AskForKey(p) ==
    /\ at[p] = "answer"
    /\ next[p] # "none"
    /\ Enter(p, next[p], <<call[p].params[1]>>)
    /\ next' = [next EXCEPT ![p] = "none"]
    /\ answer' = [answer EXCEPT ![p] = NoAnswer]
    /\ UNCHANGED <<file, memory, dir, current, calls, ghosts>>

\* The script has its answer.
HostReturn ==
    /\ at[Host] = "answer"
    /\ at' = [at EXCEPT ![Host] = "ready"]
    /\ call' = [call EXCEPT ![Host] = NoCall]
    /\ answer' = [answer EXCEPT ![Host] = NoAnswer]
    /\ UNCHANGED <<file, memory, dir, current, next, calls, ghosts>>

CliNext ==
    \/ \E p \in Runs, r \in Requests, d \in RunDirs : Invoke(p, r, d)
    \/ HostLoad \/ HostUnload \/ HostReturn
    \/ \E r \in HostRequests : HostCall(r)
    \/ \E p \in Procs :
         \/ Return(p) \/ AskForKey(p) \/ End(p)
         \/ GenKey(p) \/ SetKey(p) \/ SetKeyFromPlaintext(p) \/ SetMapping(p)
         \/ FileGetKey(p) \/ FileDelKey(p) \/ FileListKeys(p)
         \/ FileListKeysItem(p) \/ SetNetwork(p) \/ SetMircDir(p) \/ GetConfigPath(p)
         \/ \E f \in {"INI_GetString", "INI_GetInt"} : IniGet(p, f)
         \/ \E f \in {"INI_SetString", "INI_SetInt"} : IniSet(p, f)

CliSpec == CliInit /\ [][CliNext]_cliVars

-----------------------------------------------------------------------------
(* Properties.                                                             *)

\* FiSH11_GenKey never replaces a key of a nickname that is in the file ("with
\* overwrite disabled to prevent accidental data loss"), whether or not its save
\* fails, as long as the process that asks has read the whole file, no other one
\* has changed it since, and none is saving there at that time.
GenerateKeepsKeys ==
    [][\A p \in Procs, n \in Nicks, net \in Networks :
          GenKey(p) /\ inStep[p] /\ AlsoSaving(p) = {} /\ file[dir[p]].keys[<<n, net>>] # NoKey
          => file'[dir[p]].keys[<<n, net>>] = file[dir[p]].keys[<<n, net>>]]_cliVars

\* A key given to SetKey on "default" by one process, and saved, is the key
\* another process that reads the whole file is told for the nickname, whatever
\* was set, deleted or generated for other names in between, whichever of those
\* saves failed, and wherever runs were interrupted; provided none of the saves
\* in between was made from an outdated memory or torn by another one.
ToldKeyIsKept ==
    [][\A p \in Procs : LET n == call[p].params[1] IN
          FileGetKey(p) /\ inStep[p] /\ n \in Nicks /\ told[dir[p]][n] # NoKey
          => answer'[p] = KeyText(told[dir[p]][n])]_cliVars
=============================================================================
