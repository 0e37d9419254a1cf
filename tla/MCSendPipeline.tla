--------------------------- MODULE MCSendPipeline ---------------------------
(***************************************************************************)
(* Conversations with a nickname and on a channel, with FiSH 11 keys,      *)
(* legacy keys or none, in clear, with TLS, with other settings, and with  *)
(* a text that is too long.                                                *)
(***************************************************************************)
EXTENDS SendPipeline

CONSTANTS ks, kc, kl, plain, mention, wide, long

Nick == Target(FALSE, TRUE, FALSE)
Channel == Target(TRUE, TRUE, FALSE)
MixedChannel == Target(TRUE, FALSE, FALSE)
Operators == Target(TRUE, TRUE, TRUE)

Keys(store, channel, legacy) == [store |-> store, channel |-> channel, legacy |-> legacy]
None == Keys(NoKey, NoKey, NoKey)
Defaults == [incoming |-> TRUE, prefix |-> "+FiSH"]
Inputs(forms, tos, texts) == [form : forms, to : tos, text : texts]

Talk(own, peer, inputs) ==
    [own |-> own, peer |-> peer, outgoing |-> TRUE, encryptAction |-> FALSE, tls |-> FALSE,
     prefix |-> "+FiSH", reader |-> Defaults, inputs |-> inputs]

Private == Inputs({"say", "notice", "me"}, {Nick}, {mention})
Lengthy == Inputs({"say", "me"}, {Nick}, {plain, long})
Public == Inputs({"say", "topic"}, {Channel, MixedChannel, Operators}, {mention})

MCConversations ==
    { Talk(Keys(ks, NoKey, NoKey), Keys(ks, NoKey, NoKey), Private),
      [Talk(Keys(ks, NoKey, kl), Keys(ks, NoKey, kl), Private) EXCEPT !.encryptAction = TRUE],
      Talk(Keys(ks, NoKey, NoKey), Keys(ks, NoKey, NoKey), Lengthy),
      Talk(Keys(NoKey, kc, NoKey), Keys(NoKey, kc, NoKey), Public),
      Talk(Keys(ks, NoKey, kl), Keys(ks, kc, kl), Public),
      Talk(None, Keys(ks, kc, kl), Inputs({"say"}, {Nick, Channel}, {plain})),
      [Talk(None, None, Inputs({"prefixed"}, {Channel}, {wide, plain})) EXCEPT !.outgoing = FALSE],
      [Talk(Keys(ks, kc, NoKey), Keys(ks, kc, NoKey), Inputs({"say"}, {Channel}, {plain}))
          EXCEPT !.tls = TRUE],
      [Talk(Keys(ks, kc, NoKey), Keys(ks, kc, NoKey), Inputs({"me", "topic"}, {Channel}, {mention}))
          EXCEPT !.prefix = "other", !.reader.prefix = "other"] }
=============================================================================
