----------------------------- MODULE ConfigStore -----------------------------
(***************************************************************************)
(* The configuration: the file it is kept in, the copy in the server's     *)
(* memory, and the browser pages that edit it (storage.rs, domain.rs,      *)
(* config_server.rs).  A profile is an account at a provider; a phase is   *)
(* bound to a profile and a model.  A legacy file has no profiles: each    *)
(* phase names its provider and key.  A profile's provider stands for its  *)
(* base URL too, a phase's model for its token limit and temperature.      *)
(***************************************************************************)
EXTENDS Integers, Sequences, FiniteSets, FiniteSetsExt, Functions

CONSTANTS
  Tabs,       \* browser pages on the config UI
  Keys,       \* API keys a user may type
  Offered,    \* providers the page offers
  StartFiles, \* what may be on disk before the first start
  MaxEdits    \* edits in the pages, in all

Null == "null"

(* Of the file, of memory, of a page: that there is no configuration.      *)
Missing == [is |-> "missing"]
Torn == [is |-> "torn"]
Down == [is |-> "down"]
Closed == [is |-> "closed"]

(* The agents that others fall back to; the rest behave as "scout".        *)
AgentPhases == {"builder", "planner", "planner_emit", "pruner", "scout", "transformer"}
PhaseOrder == <<"builder", "planner", "planner_emit", "pruner", "scout", "transformer">>

(* A phase of a legacy file names its provider, one of today's a profile.  *)
IsFlat(entry) == "provider" \in DOMAIN entry

(* A map with another's entries where it has none of its own.             *)
Over(map, base) ==
  [x \in DOMAIN map \cup DOMAIN base |-> IF x \in DOMAIN map THEN map[x] ELSE base[x]]
Only(key, value) == [x \in {key} |-> value]

(* "transformer" once named what is now "pruner".                          *)
RenamesTransformer(phases) ==
  /\ "transformer" \in DOMAIN phases
  /\ IsFlat(phases["transformer"])
  /\ "pruner" \notin DOMAIN phases
Renamed(phases) ==
  IF RenamesTransformer(phases)
    THEN Over(Restrict(phases, DOMAIN phases \ {"transformer"}), Only("pruner", phases["transformer"]))
    ELSE phases

(* A phase the value lacks is copied from the first of two that it has.    *)
Filled(phases, phase, first, second) ==
  IF {first, second} \cap DOMAIN phases = {} THEN phases
  ELSE Over(phases, Only(phase, phases[IF first \in DOMAIN phases THEN first ELSE second]))

KnownPhases(phases) == Restrict(phases, AgentPhases \cap DOMAIN phases)

NormalizedProvider(raw) == IF raw = "deepseek" THEN "deep_seek" ELSE raw

(* What serde calls the variants of Provider: OpenAI in snake case has each*)
(* capital on its own.                                                     *)
Providers == {"deep_seek", "open_router", "open_a_i", "custom"}

(* A binding's context window, where it names none.                        *)
DefaultWindow == "32k"

(* The file is one that some version of the server wrote, or a person who  *)
(* kept to its format: a phase has one of the two forms, and is bound to a *)
(* profile there is.                                                       *)
ASSUME ConfigAssumption ==
  /\ MaxEdits \in Nat
  /\ \A value \in StartFiles \ {Missing, Torn} :
       /\ value = [profiles |-> value.profiles, default |-> value.default,
                   phases |-> value.phases, brave |-> value.brave]
       /\ value.profiles = [id \in DOMAIN value.profiles |-> value.profiles[id]]
       /\ value.phases = [p \in DOMAIN value.phases |-> value.phases[p]]
       /\ Null \notin DOMAIN value.profiles
       /\ \A id \in DOMAIN value.profiles :
            value.profiles[id] = [provider |-> value.profiles[id].provider, key |-> value.profiles[id].key]
       /\ \A p \in DOMAIN value.phases :
            LET entry == value.phases[p]
            IN IF IsFlat(entry)
                 THEN entry = [provider |-> entry.provider, key |-> entry.key,
                               model |-> entry.model, window |-> entry.window]
                 ELSE /\ entry = [profile |-> entry.profile, model |-> entry.model, window |-> entry.window]
                      /\ entry.profile \in DOMAIN value.profiles \cup {"default"}

(* The account a legacy phase uses.                                        *)
AccountOf(entry) ==
  IF IsFlat(entry) THEN [provider |-> NormalizedProvider(entry.provider), key |-> entry.key]
                   ELSE [provider |-> "deep_seek", key |-> Null]

ProfileIds == <<"default", "profile-2", "profile-3", "profile-4", "profile-5", "profile-6">>

(* Each distinct account of a legacy value becomes a profile, named by its *)
(* place in the order of the phases; the most used is the default one.  A  *)
(* phase's context window is not carried over.                             *)
Accounts(phases) == {AccountOf(phases[p]) : p \in DOMAIN phases}
Uses(phases, account) ==
  {i \in DOMAIN PhaseOrder : PhaseOrder[i] \in DOMAIN phases /\ AccountOf(phases[PhaseOrder[i]]) = account}
FirstUse(phases, account) == Min(Uses(phases, account))
ProfileOf(phases, account) ==
  LET firsts == {FirstUse(phases, a) : a \in Accounts(phases)}
  IN ProfileIds[Cardinality({i \in firsts : i <= FirstUse(phases, account)})]
MostUsed(phases) ==
  LET uses(account) == Cardinality(Uses(phases, account))
  IN CHOOSE a \in Accounts(phases) : \A b \in Accounts(phases) :
       uses(a) > uses(b) \/ (uses(a) = uses(b) /\ FirstUse(phases, a) <= FirstUse(phases, b))
Profiled(value) ==
  LET phases == value.phases
  IN IF DOMAIN value.profiles # {} \/ \A p \in DOMAIN phases : ~IsFlat(phases[p])
       THEN value
       ELSE [value EXCEPT
              !.profiles = [id \in {ProfileOf(phases, a) : a \in Accounts(phases)} |->
                             CHOOSE a \in Accounts(phases) : ProfileOf(phases, a) = id],
              !.default = ProfileOf(phases, MostUsed(phases)),
              !.phases = [p \in DOMAIN phases |->
                           [profile |-> ProfileOf(phases, AccountOf(phases[p])),
                            model |-> phases[p].model, window |-> DefaultWindow]]]

Migrated(value) ==
  LET withPlanner == Filled(Renamed(value.phases), "planner", "scout", "builder")
      withEmit == Filled(withPlanner, "planner_emit", "builder", "planner")
  IN Profiled([value EXCEPT !.phases = KnownPhases(withEmit)])

(* What does not deserialize once migrated: a phase that is no binding, and*)
(* a provider by another name than serde's or its alias.                   *)
Parses(value) ==
  LET new == Migrated(value)
  IN /\ \A p \in DOMAIN new.phases : ~IsFlat(new.phases[p])
     /\ \A id \in DOMAIN new.profiles : NormalizedProvider(new.profiles[id].provider) \in Providers
Deserialized(value) ==
  LET new == Migrated(value)
      profile(id) == [provider |-> NormalizedProvider(new.profiles[id].provider), key |-> new.profiles[id].key]
  IN [new EXCEPT !.profiles = [id \in DOMAIN new.profiles |-> profile(id)]]

(* The built-in configuration.                                             *)
DefaultProfiles == Only("default", [provider |-> "deep_seek", key |-> Null])
DefaultBindings ==
  [p \in AgentPhases |->
    [profile |-> "default",
     model |-> IF p \in {"builder", "transformer", "planner_emit"} THEN "coder" ELSE "chat",
     window |-> DefaultWindow]]
DefaultConfig ==
  [profiles |-> DefaultProfiles, default |-> "default", phases |-> DefaultBindings, brave |-> Null]

EmitFromBuilder(config) ==
  LET builder == config.phases["builder"]
      routed == /\ builder.profile \in DOMAIN config.profiles
                /\ config.profiles[builder.profile].provider = "open_router"
  IN [profile |-> builder.profile, model |-> IF routed THEN "gemini" ELSE "coder", window |-> builder.window]

(* Fills in what a configuration lacks and the built-in one has.           *)
Merged(config) ==
  LET withPlanner == Filled(config.phases, "planner", "scout", "scout")
      withEmit == IF "builder" \in DOMAIN withPlanner
                    THEN Over(withPlanner, Only("planner_emit", EmitFromBuilder(config)))
                    ELSE withPlanner
  IN [config EXCEPT !.profiles = Over(@, DefaultProfiles),
                    !.default = IF @ = Null THEN "default" ELSE @,
                    !.phases = Over(withEmit, DefaultBindings)]

Resolves(config, phase) ==
  phase \in DOMAIN config.phases /\ config.phases[phase].profile \in DOMAIN config.profiles
Resolved(config, phase) ==
  [account |-> config.profiles[config.phases[phase].profile],
   model |-> config.phases[phase].model, window |-> config.phases[phase].window]
-----------------------------------------------------------------------------
VARIABLES
  file,    \* Missing, Torn, or the value that is in it
  memory,  \* Down, or the configuration of the running server
  pages,   \* tab -> Closed, or the configuration the page shows
  agreed,  \* the last load or save left memory and file the same
  edits

config == <<file, memory, pages, agreed, edits>>

\* Mutant: the default profile is not serialized either.
JsonWithoutDefault(c) == [c EXCEPT !.brave = Null, !.default = Null]

(* Serialized, a configuration loses its Brave key (skip_serializing).     *)
Json(c) == [c EXCEPT !.brave = Null]

Loads(value) == value \notin {Missing, Torn} /\ Parses(value)
Loaded(value) == Merged(Deserialized(value))

ConfigInit ==
  /\ file \in StartFiles
  /\ memory = Down
  /\ pages = [t \in Tabs |-> Closed]
  /\ agreed = FALSE
  /\ edits = 0

(* load_or_default: without a file the defaults are saved, if they can be; *)
(* a file that does not load is left alone.                                *)
Load ==
  /\ memory = Down
  /\ memory' = IF Loads(file) THEN Loaded(file) ELSE DefaultConfig
  /\ \/ file # Missing /\ file' = file
     \/ file = Missing /\ file' \in {Missing, Torn, Json(DefaultConfig)}
  /\ agreed' = Loads(file')
  /\ UNCHANGED <<pages, edits>>

GetConfig(t) ==
  /\ memory # Down
  /\ pages' = [pages EXCEPT ![t] = Json(Merged(memory))]
  /\ UNCHANGED <<file, memory, agreed, edits>>

\* Mutant: only the default profile is protected.
InUseAsDefault(page, id) == id = page.default

(* What the page lets a user change: a profile that a phase or the default *)
(* refers to cannot be deleted.                                            *)
InUse(page, id) == id = page.default \/ \E p \in DOMAIN page.phases : page.phases[p].profile = id
PageEdits(page) ==
     {[page EXCEPT !.profiles = Over(@, Only("own", [provider |-> "open_router", key |-> Null]))]}
  \cup {[page EXCEPT !.profiles[id].key = k] : id \in DOMAIN page.profiles, k \in Keys}
  \cup {[page EXCEPT !.profiles[id].provider = c] : id \in DOMAIN page.profiles, c \in Offered}
  \cup {[page EXCEPT !.phases[p].profile = id] : p \in {"builder", "scout"}, id \in DOMAIN page.profiles}
  \cup {[page EXCEPT !.default = id] : id \in DOMAIN page.profiles}
  \cup {[page EXCEPT !.brave = k] : k \in Keys}
  \cup {[page EXCEPT !.profiles = Restrict(@, DOMAIN @ \ {id})] :
          id \in {i \in DOMAIN page.profiles : ~InUse(page, i)}}
EditPage(t) ==
  /\ pages[t] # Closed
  /\ edits < MaxEdits
  /\ \E page \in PageEdits(pages[t]) : pages' = [pages EXCEPT ![t] = page]
  /\ edits' = edits + 1
  /\ UNCHANGED <<file, memory, agreed>>

(* put_config: phases one by one, profiles as a whole; a body without the  *)
(* Brave key keeps the one in memory.                                      *)
Put(c, body) ==
  Merged([profiles |-> IF DOMAIN body.profiles = {} THEN c.profiles ELSE body.profiles,
          default |-> IF body.default = Null THEN c.default ELSE body.default,
          phases |-> Over(body.phases, c.phases),
          brave |-> IF body.brave = Null THEN c.brave ELSE body.brave])
(* A body that does not deserialize is refused.  Memory is changed before  *)
(* the file is: a save that fails is reported and memory keeps the change; *)
(* what stopped it, or the server, may leave half a file.                  *)
PutConfig(t) ==
  LET new == Put(memory, Deserialized(pages[t]))
  IN /\ pages[t] # Closed /\ memory # Down
     /\ Parses(pages[t])
     /\ \/ /\ memory' = new /\ file' = Json(new) /\ agreed' = TRUE
           /\ pages' = [pages EXCEPT ![t] = Json(new)]
        \/ /\ memory' = new /\ file' \in {file, Torn} /\ agreed' = FALSE
           /\ UNCHANGED pages
        \/ /\ memory' = Down /\ file' \in {file, Torn, Json(new)} /\ agreed' = FALSE
           /\ UNCHANGED pages
     /\ UNCHANGED edits

StopServer ==
  /\ memory # Down
  /\ memory' = Down /\ agreed' = FALSE
  /\ UNCHANGED <<file, pages, edits>>

ConfigNext ==
  \/ Load \/ StopServer
  \/ \E t \in Tabs : GetConfig(t) \/ EditPage(t) \/ PutConfig(t)

ConfigTypeOK ==
  /\ memory # Down => DOMAIN memory.phases = AgentPhases
  /\ agreed \in BOOLEAN /\ edits \in 0..MaxEdits

(* No agent is left without an account: whichever pages save over each     *)
(* other, and however stale, every phase of the running server resolves    *)
(* (resolve_phase, get_profile's expect, deleteProfile, put_config).       *)
EveryPhaseResolves == memory # Down => \A p \in AgentPhases : Resolves(memory, p)

(* What a save wrote loads at the next start, and is what was saved, the   *)
(* Brave key excepted: no binding, profile or default changes its meaning, *)
(* and nothing that a page may send is written that the server cannot read *)
(* (save_to_file, put_config, migrate_config_value,                        *)
(* merge_missing_from_defaults).                                           *)
SavedIsLoaded ==
  agreed => /\ Loads(file)
            /\ LET loaded == Loaded(file) IN loaded = [memory EXCEPT !.brave = loaded.brave]

(* A legacy file loads if the server knows each of its providers, and but  *)
(* for the context windows it means what it meant: each phase in it still  *)
(* calls its own provider with its own key and model, the old "transformer"*)
(* as "pruner" (migrate_flat_phases_to_profiles, Provider).                *)
LegacyMeansTheSame ==
  /\ file \notin {Missing, Torn} /\ DOMAIN file.profiles = {}
  /\ \A p \in DOMAIN file.phases \cap AgentPhases : AccountOf(file.phases[p]).provider \in Providers
  => /\ Parses(file)
     /\ LET loaded == Loaded(file)
        IN \A p \in {q \in DOMAIN file.phases \cap AgentPhases : IsFlat(file.phases[q])} :
             LET now == IF p = "transformer" /\ RenamesTransformer(file.phases) THEN "pruner" ELSE p
             IN Resolved(loaded, now) =
                  [account |-> AccountOf(file.phases[p]), model |-> file.phases[p].model,
                   window |-> DefaultWindow]

(* The providers the page offers are ones the server takes: a page saves   *)
(* whatever a user chose on it (types.ts, clients.ts, put_config).         *)
OfferedIsTaken == \A t \in Tabs : pages[t] # Closed => Parses(pages[t])

===============================================================================
