------------------------------ MODULE MCServices ------------------------------
EXTENDS Services, TLC

\* Which page is which decides nothing.
PageSymmetry == Permutations(Tabs)

MCKeys == {"k1"}
MCOffered == {"open_router", "open_ai"}

Legacy(phases) == [profiles |-> <<>>, default |-> Null, phases |-> phases, brave |-> Null]
MCAccounts ==
  {[provider |-> "deepseek", key |-> Null], [provider |-> "deepseek", key |-> "k1"],
   [provider |-> "open_router", key |-> "k1"]}
Flat(account, phase) ==
  [provider |-> account.provider, key |-> account.key, model |-> phase,
   window |-> IF phase = "scout" THEN "128k" ELSE DefaultWindow]
MCLegacyPhases ==
  {[p \in {"builder", "scout", "transformer"} |-> Flat(accounts[p], p)] :
     accounts \in {f \in [{"builder", "scout", "transformer"} -> MCAccounts] : f["builder"].key = Null}}
  \cup {[p \in {"pruner", "transformer", "reviewer"} |->
          Flat([provider |-> "open_router", key |-> IF p = "pruner" THEN Null ELSE "k1"], p)],
        [p \in {"builder", "scout"} |-> Flat([provider |-> "open_ai", key |-> "k1"], p)]}
(* Today's shape, with a phase missing, and with another default.          *)
MCOwn ==
  [profiles |-> Only("own", [provider |-> "open_router", key |-> "k1"]), default |-> "own",
   phases |-> [p \in {"builder", "transformer"} |-> [profile |-> "own", model |-> "m", window |-> "128k"]],
   brave |-> "k1"]
(* A profile that no phase uses yet.                                       *)
MCSpare == Json([DefaultConfig EXCEPT !.profiles = Over(@, Only("own", [provider |-> "open_router", key |-> Null]))])
MCStartFiles == {Missing, Torn, MCOwn, MCSpare} \cup {Legacy(p) : p \in MCLegacyPhases}

MCJobs == {"j1", "j2"}
MCServerOf == [j1 |-> "s1", j2 |-> "s2"]
MCJobTools == {"scout_context", "execute_blueprint", "get_agent_context_caps"}

MCOutputs == {<<>>, <<"pass">>, <<"pass", "evidence", "legacy", "alike">>}
MCResponses ==
  {[content |-> "json", score |-> 11, desired |-> "dense"],
   [content |-> "json", score |-> 10, desired |-> "long"], [content |-> "json", score |-> 9, desired |-> "long"],
   [content |-> "json", score |-> 9, desired |-> "dense"], [content |-> "json", score |-> 7, desired |-> "dense"],
   [content |-> "json", score |-> 2, desired |-> "dense"]}

Message(form, id, method) == [form |-> form, id |-> id, method |-> method]
MCMessages ==
  {Message("line", "1", m) : m \in Methods}
  \cup {Message("headers", "2", "call"), Message("line", "none", "other"), Message("line", "garbled", "other"),
        Message("blank", "none", "other"), Message("unsized", "none", "other")}
MCInputs == UNION {[1..n -> MCMessages] : n \in 0..3}
===============================================================================
