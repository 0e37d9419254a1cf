---------------------------- MODULE MCCommandLine ----------------------------
(* CommandLine with two runs of fish_11_cli beside mIRC.                   *)
EXTENDS CommandLine, TLC

CONSTANTS cli1, cli2, k1, k2, alice, chan, tagbob, default, efnet, home, other, short, channel_mark

Line(command, params) == [path |-> Library, command |-> command, params |-> params]

\* Lines of a script or a user.  The second setkey has the two parameters the
\* documentation gives, the third a nickname that the file does not keep; the
\* last ones are refused at different points.
Lines ==
    {Line("genkey", <<alice>>),
     Line("setkey", <<default, alice, k1>>), Line("setkey", <<alice, k1>>),
     Line("setkey", <<default, tagbob, k2>>),
     Line("skp", <<alice, k1>>), Line("getkey", <<alice>>), Line("delkey", <<alice>>),
     Line("lk", <<>>), Line("li", <<1>>), Line("li", <<>>), Line("gcp", <<>>),
     Line("ii", <<MarkPosition>>),
     Line("help", <<>>), Line("genkey", <<Unsafe>>),
     [path |-> "elsewhere", command |-> "getkey", params |-> <<alice>>],
     Line("genkey", <<>>), Line("unheard", <<>>), Line("invalid", <<>>), Line("getkey", <<Control>>)}

\* Nothing saved yet, or keys on one network from an earlier session, that of a
\* channel in a line that is a comment.
EarlierFiles ==
    {Empty, [keys |-> [Empty.keys EXCEPT ![alice, efnet] = k2, ![chan, efnet] = k1],
             nets |-> [Empty.nets EXCEPT ![alice] = efnet], fish11 |-> Empty.fish11]}

\* The scripts name the directory first, and use keys then.
ScriptCalls ==
    {[function |-> "SetMircDir", params |-> <<other>>],
     [function |-> "SetNetwork", params |-> <<efnet>>],
     [function |-> "SetKey", params |-> <<default, alice, k2>>],
     [function |-> "GenKey", params |-> <<alice>>],
     [function |-> "FileGetKey", params |-> <<alice>>],
     [function |-> "INI_SetInt", params |-> <<MarkPosition, 300>>],
     [function |-> "INI_SetString", params |-> <<channel_mark, short>>],
     [function |-> "INI_SetInt", params |-> <<MarkPosition>>]}

\* The directory mIRC starts in has keys from an earlier session.
Earlier == calls = 0 => file[home] # Empty

Symmetric == Permutations({cli1, cli2})
=============================================================================
