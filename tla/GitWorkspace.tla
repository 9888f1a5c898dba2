----------------------------- MODULE GitWorkspace -----------------------------
(***************************************************************************)
(* The repository that the pull request and commit-copy jobs share: the    *)
(* branch checked out, the work tree, the commits and what origin has, as  *)
(* far as src/src/tools/github.rs and agent/git_janitor/branch.rs read and *)
(* change them.  Contents are versions: each round of edits is a new one.  *)
(***************************************************************************)
EXTENDS Naturals

CONSTANTS
  Branches,   \* branch names, [ticket, form, name]: see GitJanitor
  PrHead,     \* the head branch of the pull request
  MaxEdits    \* bound: rounds of edits

ASSUME RepoAssumption == PrHead \in Branches /\ MaxEdits \in Nat

VARIABLES
  branch,     \* checked out
  known,      \* branches that exist locally
  tree,       \* version of the work tree
  head,       \* version HEAD has committed
  origin      \* version of each branch on origin

repo == <<branch, known, tree, head, origin>>

RepoInit ==
  /\ branch \in Branches
  /\ known = {branch, PrHead}
  /\ tree = 0 /\ head = 0
  /\ origin = [b \in Branches |-> 0]

RepoTypeOK ==
  /\ branch \in Branches /\ known \subseteq Branches
  /\ tree \in 0 .. MaxEdits /\ head \in 0 .. MaxEdits
  /\ origin \in [Branches -> 0 .. MaxEdits]

OnPrHeadBranch == branch = PrHead

(* git push origin HEAD: the commits of the branch checked out.            *)
PushOriginHead ==
  /\ origin' = [origin EXCEPT ![branch] = head]
  /\ UNCHANGED <<branch, known, tree, head>>

(* A round of edits by an agent; a person commits what is in the tree.     *)
EditTree ==
  /\ tree < MaxEdits /\ tree' = tree + 1
  /\ UNCHANGED <<branch, known, head, origin>>

PersonCommits ==
  /\ head # tree /\ head' = tree
  /\ UNCHANGED <<branch, known, tree, origin>>

(* create_git_branch: refused for the branch one is on; git checkout -b    *)
(* refuses a branch that exists.  The work tree comes along.               *)
CheckoutNew(name) ==
  /\ name # branch /\ name \notin known
  /\ branch' = name /\ known' = known \cup {name}
  /\ UNCHANGED <<tree, head, origin>>
===============================================================================
