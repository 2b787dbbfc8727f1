------------------------------ MODULE WebModels ------------------------------
(***************************************************************************)
(* The model settings: components/RuntimeModelSettings.tsx in the dialog   *)
(* of AppSettings.tsx, over the routes of runtime_llm_routes.py.           *)
(*                                                                         *)
(* A configuration (binding, model, host, limits) is the role it was made  *)
(* for: that of its own role at first, and whatever is typed into the form *)
(* is typed for the role whose configuration it holds.  Keys, texts and    *)
(* what the providers answer are left out.  The role can be changed, and   *)
(* the dialog closed, while a request is under way.                        *)
(***************************************************************************)
CONSTANTS
    Roles,
    FirstRole,  \* the first of the answer's
    NoRole

ASSUME ModelsAssumption ==
    FirstRole \in Roles /\ NoRole \notin Roles /\ NoRole \notin [Roles -> Roles]

VARIABLES
    routes,     \* the server: the configuration each role runs on
    mounted,    \* is the section open
    settings,   \* the configurations the page knows, or NoRole
    role, draft,
    models,     \* the role whose provider's models are offered, or NoRole
    saving,     \* the update under way, or NoRole
    discovering,\* the configuration whose provider is asked, or NoRole
    orphan,     \* an update whose form is gone, or NoRole
    overtaken,  \* history: an answer came under another role than its own
    mixed       \* history: what the form held of one role was saved for another

formVars == <<mounted, settings, role, draft, models, saving, discovering, overtaken>>
modelVars == <<routes, formVars, orphan, mixed>>

Update(r, config) == [role |-> r, config |-> config, step |-> "sent"]
Updates == [role : Roles, config : Roles, step : {"sent", "done", "refused"}]

ModelsTypeOK ==
    /\ routes \in [Roles -> Roles]
    /\ {mounted, overtaken, mixed} \subseteq BOOLEAN
    /\ settings = NoRole \/ settings \in [Roles -> Roles]
    /\ {role, draft, models, discovering} \subseteq Roles \cup {NoRole}
    /\ {saving, orphan} \subseteq Updates \cup {NoRole}

Shut(open) ==
    /\ mounted' = open
    /\ settings' = NoRole /\ role' = NoRole /\ draft' = NoRole /\ models' = NoRole
    /\ saving' = NoRole /\ discovering' = NoRole /\ overtaken' = FALSE

ModelsInit ==
    /\ routes = [r \in Roles |-> r]
    /\ mounted = FALSE
    /\ settings = NoRole /\ role = NoRole /\ draft = NoRole /\ models = NoRole
    /\ saving = NoRole /\ discovering = NoRole /\ orphan = NoRole
    /\ overtaken = FALSE /\ mixed = FALSE

(* ------------------------------ the form ------------------------------- *)
OpenModels == ~mounted /\ Shut(TRUE) /\ UNCHANGED <<routes, orphan, mixed>>

(* The section, the dialog or the page goes; an update may still act.      *)
Abandon == orphan' = IF saving # NoRole /\ saving.step = "sent" THEN saving ELSE orphan
CloseModels ==
    /\ mounted /\ orphan = NoRole
    /\ Shut(FALSE)
    /\ Abandon
    /\ UNCHANGED <<routes, mixed>>

(* Without an answer the form never shows.                                 *)
ModelsListed ==
    /\ mounted /\ settings = NoRole
    /\ settings' = routes
    /\ role' = FirstRole /\ draft' = routes[FirstRole]
    /\ UNCHANGED <<routes, mounted, models, saving, discovering, orphan, overtaken, mixed>>

(* Mutant: the models offered stay those of the old role.                  *)
ChangeRoleOnly(r) ==
    /\ settings # NoRole /\ r # role
    /\ role' = r
    /\ overtaken' = FALSE
    /\ UNCHANGED <<routes, mounted, settings, draft, models, saving, discovering, orphan, mixed>>

ChangeRole(r) ==
    /\ settings # NoRole /\ r # role
    /\ role' = r
    /\ draft' = settings[r] /\ models' = NoRole
    /\ overtaken' = FALSE
    /\ UNCHANGED <<routes, mounted, settings, saving, discovering, orphan, mixed>>

(* Another binding: the models of the old one are no longer offered.       *)
ChangeBinding ==
    /\ settings # NoRole /\ models # NoRole
    /\ models' = NoRole
    /\ UNCHANGED <<routes, mounted, settings, role, draft, saving, discovering, orphan,
                   overtaken, mixed>>

Discover ==
    /\ settings # NoRole /\ discovering = NoRole
    /\ discovering' = draft
    /\ UNCHANGED <<routes, mounted, settings, role, draft, models, saving, orphan, overtaken, mixed>>

Save ==
    /\ settings # NoRole /\ saving = NoRole
    /\ saving' = Update(role, draft)
    /\ mixed' = (mixed \/ draft # role)
    /\ UNCHANGED <<routes, mounted, settings, role, draft, models, discovering, orphan, overtaken>>

(* ----------------------------- the answers ----------------------------- *)
(* No models, or none to be had: as an empty list                          *)
Discovered ==
    /\ discovering # NoRole
    /\ \/ models' = discovering /\ overtaken' = (overtaken \/ discovering # role)
       \/ models' = NoRole /\ UNCHANGED overtaken
       \/ UNCHANGED <<models, overtaken>>
    /\ discovering' = NoRole
    /\ UNCHANGED <<routes, mounted, settings, role, draft, saving, orphan, mixed>>

(* PATCH /runtime/llm/{role}: acts, or is refused                          *)
SaveServed ==
    /\ saving # NoRole /\ saving.step = "sent"
    /\ \/ /\ routes' = [routes EXCEPT ![saving.role] = saving.config]
          /\ saving' = [saving EXCEPT !.step = "done"]
       \/ saving' = [saving EXCEPT !.step = "refused"] /\ UNCHANGED routes
    /\ UNCHANGED <<mounted, settings, role, draft, models, discovering, orphan, overtaken, mixed>>

OrphanServed ==
    /\ orphan # NoRole
    /\ orphan' = NoRole
    /\ routes' = [routes EXCEPT ![orphan.role] = orphan.config] \/ UNCHANGED routes
    /\ UNCHANGED <<formVars, mixed>>

(* The answer goes into the form, whatever role it is at by now.           *)
Saved ==
    /\ saving # NoRole /\ saving.step = "done"
    /\ settings' = [settings EXCEPT ![saving.role] = saving.config]
    /\ draft' = saving.config
    /\ overtaken' = (overtaken \/ saving.role # role)
    /\ saving' = NoRole
    /\ UNCHANGED <<routes, mounted, role, models, discovering, orphan, mixed>>

(* Refused, or the answer is lost, or the update never arrives.            *)
SaveFails ==
    /\ saving # NoRole
    /\ orphan = NoRole \/ saving.step # "sent"
    /\ Abandon
    /\ saving' = NoRole
    /\ UNCHANGED <<routes, mounted, settings, role, draft, models, discovering, overtaken, mixed>>

ModelsUser ==
    \/ OpenModels \/ CloseModels \/ ChangeBinding \/ Discover \/ Save
    \/ \E r \in Roles : ChangeRole(r)
ModelsAnswers ==
    ModelsListed \/ Discovered \/ SaveServed \/ OrphanServed \/ Saved \/ SaveFails

(* Every role runs on, and the form holds, a configuration made for that   *)
(* role, and the models offered were asked for with a configuration of     *)
(* that role, though maybe for a binding it has left since; only an answer *)
(* that a change of the role has overtaken puts another role's into the    *)
(* form, and only a save of such a form into the routes.                   *)
RolesApart ==
    ~mixed =>
        /\ \A r \in Roles : routes[r] = r
        /\ settings # NoRole /\ ~overtaken => draft = role /\ models \in {NoRole, role}
=============================================================================
