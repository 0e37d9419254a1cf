---------------------------- MODULE MCChannelKeys ----------------------------
(* Instances of ChannelKeys for TLC. *)
EXTENDS ChannelKeys, TLC

CONSTANTS a, b, c, m

\* A coordinator and a member, with room for a notice between messages.
Pair == [clients |-> {a, b}, coordinators |-> {a}, shared |-> {a, b} \X {a, b},
         misnamed |-> {}, manual |-> {m}, fits |-> 2, maxLink |-> 2]

\* A coordinator and two members, one of which may be left out.
Group == [clients |-> {a, b, c}, coordinators |-> {a}, shared |-> Clients \X Clients,
          misnamed |-> {}, manual |-> {}, fits |-> 2, maxLink |-> 1]

\* The same with room for one notice.
Crowd == [Group EXCEPT !.fits = 1]

\* Two coordinators: c is misnamed, b cannot unwrap what a sends, and a has no
\* key for c.
Refusals == [clients |-> {a, b, c}, coordinators |-> {a, c}, shared |-> {<<a, b>>, <<c, a>>},
             misnamed |-> {c}, manual |-> {m}, fits |-> 2, maxLink |-> 1]

AllChannels == {Pair, Group, Crowd, Refusals}

KeySymmetry == Permutations(Keys)
=============================================================================
