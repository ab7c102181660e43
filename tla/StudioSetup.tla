---------------------------- MODULE StudioSetup ----------------------------
(***************************************************************************)
(* ai-studio/setup.sh: an LLM entry, an app that is granted it, and the    *)
(* app's credential, found or created, in a control plane that keeps them  *)
(* from run to run.  A run may stop between any two requests.  A request   *)
(* that is answered with an error stops it only if the script reads the    *)
(* answer: the PATCH and the activation are not read, and a list of LLMs   *)
(* that cannot be had counts as an empty one.                              *)
(***************************************************************************)
EXTENDS Naturals, Sequences

CONSTANTS
    Vendors,       \* what AI_STUDIO_LLM_VENDOR may say
    MaxLlms,       \* bound on the LLM entries
    NoApp          \* there is no app

ASSUME StudioAssumption == MaxLlms \in Nat /\ "" \notin Vendors /\ NoApp \notin Nat

VARIABLES
    llms,          \* the entries named workshop-llm, oldest first
    app,           \* the entry the app is granted, or NoApp
    active,        \* the app's credential is active
    env,           \* vendor and API key this run was given
    at,            \* the next step of the run
    llmId,         \* LLM_ID
    clean,         \* history: no request of this run was answered with an error
    confirmed      \* history: the last run said Done

recordVars == <<llms, app, active>>
runVars    == <<env, at, llmId, clean, confirmed>>
studioVars == <<recordVars, runVars>>

(* A key is told apart by the vendor it is for; "" is no key. *)
Environments == [vendor : Vendors, key : Vendors \cup {""}]

StudioInit ==
    /\ llms = <<>>
    /\ app = NoApp
    /\ active = FALSE
    /\ env = [vendor |-> "", key |-> ""]
    /\ at = "none"
    /\ llmId = 0
    /\ clean = TRUE
    /\ confirmed = FALSE

(* VENDOR and API_KEY come from the environment, the key under the vendor's name. *)
BeginStudio(e) ==
    /\ at = "none"
    /\ e.key \in {"", e.vendor}
    /\ env' = e
    /\ at' = "llm"
    /\ clean' = TRUE
    /\ confirmed' = FALSE
    /\ UNCHANGED <<recordVars, llmId>>

(* set -e, or an answer the script cannot read. *)
StopStudio ==
    /\ at # "none"
    /\ at' = "none"
    /\ UNCHANGED <<recordVars, env, llmId, clean, confirmed>>

Then(s) == at' = s /\ UNCHANGED <<env, confirmed>>

(* No entry is listed, or the list is an error: POST of a whole record. *)
CreateLlm ==
    /\ at = "llm"
    /\ Len(llms) < MaxLlms
    /\ llms' = Append(llms, env)
    /\ llmId' = Len(llms')
    /\ clean' = (llms = <<>>)
    /\ Then("app")
    /\ UNCHANGED <<app, active>>

(* Defect variant of UpdateLlm: a PATCH of the key alone blanks the rest. *)
UpdateLlmPartial ==
    /\ at = "llm" /\ llms # <<>> /\ env.key # ""
    /\ llmId' = 1
    /\ llms' = [llms EXCEPT ![1] = [vendor |-> "", key |-> env.key]]
    /\ Then("app")
    /\ UNCHANGED <<app, active, clean>>

(* The entry is found and there is a key: the record is read and written     *)
(* back whole, with the key; that the PATCH may fail is not noticed.         *)
UpdateLlm ==
    /\ at = "llm" /\ llms # <<>> /\ env.key # ""
    /\ llmId' = 1
    /\ \/ llms' = [llms EXCEPT ![1].key = env.key] /\ UNCHANGED clean
       \/ clean' = FALSE /\ UNCHANGED llms
    /\ Then("app")
    /\ UNCHANGED <<app, active>>

(* Defect variant of FindLlm: its id is not printed. *)
FindLlmOnly ==
    /\ at = "llm" /\ llms # <<>> /\ env.key = ""
    /\ llmId' = 0
    /\ Then("app")
    /\ UNCHANGED <<recordVars, clean>>

(* The entry is found, and there is no key to add. *)
FindLlm ==
    /\ at = "llm" /\ llms # <<>> /\ env.key = ""
    /\ llmId' = 1
    /\ Then("app")
    /\ UNCHANGED <<recordVars, clean>>

(* The app is found by its name, or created for the entry. *)
FindOrCreateApp ==
    /\ at = "app"
    /\ app' = IF app = NoApp THEN llmId ELSE app
    /\ Then("activate")
    /\ UNCHANGED <<llms, active, llmId, clean>>

(* The credential is activated on every run; a failure is not noticed. *)
Activate ==
    /\ at = "activate"
    /\ \/ active' = TRUE /\ UNCHANGED clean
       \/ clean' = FALSE /\ UNCHANGED active
    /\ Then("secret")
    /\ UNCHANGED <<llms, app, llmId>>

(* Its secret is read and written to a file, and the script says Done. *)
ReadSecret ==
    /\ at = "secret"
    /\ at' = "none"
    /\ confirmed' = TRUE
    /\ UNCHANGED <<recordVars, env, llmId, clean>>

StudioNext ==
    \/ \E e \in Environments : BeginStudio(e)
    \/ StopStudio
    \/ CreateLlm
    \/ UpdateLlm
    \/ FindLlm
    \/ FindOrCreateApp
    \/ Activate
    \/ ReadSecret

-----------------------------------------------------------------------------
StudioTypeOK ==
    /\ llms \in Seq([vendor : Vendors, key : Vendors \cup {""}])
    /\ app \in {NoApp} \cup DOMAIN llms
    /\ active \in BOOLEAN
    /\ env \in [vendor : Vendors \cup {""}, key : Vendors \cup {""}]
    /\ at \in {"none", "llm", "app", "activate", "secret"}
    /\ llmId \in {0} \cup DOMAIN llms
    /\ clean \in BOOLEAN
    /\ confirmed \in BOOLEAN

(* A run whose requests all succeed repairs whatever earlier runs left       *)
(* behind, wherever they stopped: the credential is active, and the app's    *)
(* entry has its vendor, and the key of this run if it had one - unless an   *)
(* earlier failure has left two entries.  (The vendor is the one the entry   *)
(* was created with, even if this run was given another.)                    *)
RerunRepairs ==
    (confirmed /\ clean) =>
        /\ active
        /\ llms[app].vendor \in Vendors
        /\ (Len(llms) = 1 /\ env.key # "") => llms[app].key = env.key

=============================================================================
