------------------------------- MODULE MCGitJobs -------------------------------
(* A small instance of GitJobs: two review comments on two files, the checks  *)
(* gh reports, a branch for each ticket and the default one.                   *)
EXTENDS GitJobs, TLC
CONSTANTS c1, c2, f1, f2

OwnFiles == c1 :> f1 @@ c2 :> f2
Ticket(k) == [key |-> k, form |-> "PROJ-1"]
Named(t) == [ticket |-> t, default |-> FALSE]
Main == [ticket |-> NoTicket, default |-> TRUE]
PrBranch == Named(Ticket("A"))
AllBranches == {Main} \cup {Named(Ticket(k)) : k \in Keys}
Asks(context, expected, instructions) ==
  [feature_context |-> context, expected_ticket |-> expected,
   user_instructions |-> instructions]
FewRequests ==
  {Asks(NoTicket, NoTicket, NoTicket), Asks(Ticket("A"), NoTicket, Ticket("B")),
   Asks(NoTicket, Ticket("A"), Ticket("B")), Asks(NoTicket, NoTicket, Ticket("A")),
   Asks(Ticket("A"), Ticket("B"), NoTicket),
   Asks(NoTicket, [key |-> "A", form |-> "proj-1"], NoTicket)}
Run(n, b, s) == [name |-> n, bucket |-> b, state |-> s]
OneRun == {Run("ci", "pass", "SUCCESS"), Run("ci", "fail", "TIMED_OUT"),
           Run("CodeRabbit", "pending", "QUEUED")}
===============================================================================
