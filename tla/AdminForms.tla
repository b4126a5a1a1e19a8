------------------------------ MODULE AdminForms ------------------------------
(***************************************************************************)
(* The two forms of the panel that show rows and write them back, beside the   *)
(* requests of Accounts: the Settings page (pages/Settings.tsx,                *)
(* admin/settings.ts) and the webhook drawer of a device                       *)
(* (components/WebhookDrawer.tsx, PATCH /devices/:id in admin/devices.ts).     *)
(*                                                                           *)
(* A form keeps what the server sent when it was opened, and sends every field  *)
(* when it is saved.  What is typed matters at Save only, so it is chosen       *)
(* there.  One device, which is not deleted here.                              *)
(***************************************************************************)
EXTENDS Accounts

CONSTANTS
  Tabs,           \* browser tabs of administrators
  SettingFields,  \* fields of platform_settings other than signupsEnabled
  HookFields,     \* webhook fields of a device other than webhookUrl
  Urls,           \* webhook URLs
  NotLoaded       \* a form whose data has not arrived

ASSUME FormsAssumption ==
  /\ "signupsEnabled" \notin SettingFields /\ "webhookUrl" \notin HookFields
  /\ Urls # {}

VARIABLES
  settings,   \* platform_settings but for signupsEnabled
  hook,       \* the webhook fields of the device
  secret,     \* its webhookSecret: the number of the one generated, 0: null
  lastSecret,
  page,       \* page[a]: "none", "settings", "drawer"
  base,       \* what its form was loaded with, or NotLoaded
  shown,      \* the secret the drawer shows
  save,       \* its save under way: [at, sent, read; edited is history]
  regenerate  \* its regeneration under way: where

forms == <<page, base, shown, save, regenerate>>
device == <<hook, secret, lastSecret>>
vars == <<accountVars, settings, device, forms>>

NoSave == [at |-> "none"]

\* The rows, and what can be typed: some of the fields, with values that pass the
\* checks of the page and the handler (with others nothing is sent or written).
\* The fields but the first have two values; None is null.
SettingsRow == Over([signupsEnabled |-> signupsEnabled], settings)
BlankHook == [f \in HookFields \cup {"webhookUrl"} |-> None]
Edits(fields, values) == UNION {[S -> values] : S \in SUBSET fields}
HookEdits == {Over(u, f) : u \in Edits({"webhookUrl"}, {None} \cup Urls),
                           f \in Edits(HookFields, {None, "set"})}
SettingEdits == {Over(s, f) : s \in Edits({"signupsEnabled"}, BOOLEAN),
                              f \in Edits(SettingFields, {1, 2})}

Init ==
  /\ AccountsInit
  /\ settings = [f \in SettingFields |-> 1]
  /\ hook \in {BlankHook, [BlankHook EXCEPT !["webhookUrl"] = CHOOSE x \in Urls : TRUE]}
  /\ secret = IF hook["webhookUrl"] = None THEN 0 ELSE 1
  /\ lastSecret = 1
  /\ page = [a \in Tabs |-> "none"]
  /\ base = [a \in Tabs |-> NotLoaded]
  /\ shown = [a \in Tabs |-> 0]
  /\ save = [a \in Tabs |-> NoSave]
  /\ regenerate = [a \in Tabs |-> "none"]

-----------------------------------------------------------------------------
(* Opening and closing a form. *)

Open(a, which) ==
  /\ Counted
  /\ page[a] = "none" /\ regenerate[a] = "none"
  /\ page' = [page EXCEPT ![a] = which]
  /\ UNCHANGED <<accounts, signupsEnabled, settings, device, base, shown, save, regenerate>>

\* The answer of GET /settings or GET /devices/:id.  An answer that was read
\* long before is a form that has been open since.
Load(a) ==
  /\ page[a] # "none" /\ base[a] = NotLoaded
  /\ base' = [base EXCEPT ![a] = IF page[a] = "settings" THEN SettingsRow ELSE hook]
  /\ shown' = [shown EXCEPT ![a] = IF page[a] = "drawer" THEN secret ELSE 0]
  /\ UNCHANGED <<accountVars, settings, device, page, save, regenerate>>

Shut(a) ==
  /\ page' = [page EXCEPT ![a] = "none"]
  /\ base' = [base EXCEPT ![a] = NotLoaded]
  /\ shown' = [shown EXCEPT ![a] = 0]

\* Without a request under way: what one does after its page is gone is what it
\* does when its answer is lost.
Close(a) ==
  /\ page[a] # "none"
  /\ save[a] = NoSave /\ regenerate[a] = "none"
  /\ Shut(a)
  /\ UNCHANGED <<accountVars, settings, device, save, regenerate>>

\* A save sends the values typed, and for the other fields those it was loaded with.
Send(a, edits, unedited) ==
  /\ Counted
  /\ save[a] = NoSave
  /\ save' = [save EXCEPT ![a] = [at |-> "sent", sent |-> Over(edits, unedited), read |-> 0,
                                  edited |-> DOMAIN edits]]
  /\ UNCHANGED <<accounts, signupsEnabled, settings, device, page, base, shown, regenerate>>

\* The error branch of both forms, and an answer that is lost: the page stays.
SaveFails(a) ==
  /\ save[a] # NoSave
  /\ save' = [save EXCEPT ![a] = NoSave]
  /\ UNCHANGED <<accountVars, settings, device, page, base, shown, regenerate>>

-----------------------------------------------------------------------------
(* The Settings page. *)

\* The form is not shown before the row has arrived, and Save is disabled until
\* something differs from it.
FormShown(a) == page[a] = "settings" /\ base[a] # NotLoaded
InitialState == Over([signupsEnabled |-> TRUE], [f \in SettingFields |-> 1])
Loaded(a) == IF base[a] = NotLoaded THEN InitialState ELSE base[a]

SubmitSettings(a, edits) ==
  /\ FormShown(a)
  /\ \E f \in DOMAIN edits : edits[f] # Loaded(a)[f]
  /\ Send(a, edits, Loaded(a))

\* PATCH /settings: one update of the fields that are present.
PatchSettings(a) ==
  LET row == Over(save[a].sent, SettingsRow) IN
  /\ page[a] = "settings" /\ save[a].at = "sent"
  /\ signupsEnabled' = row.signupsEnabled
  /\ settings' = [f \in SettingFields |-> row[f]]
  /\ save' = [save EXCEPT ![a] = [at |-> "answered", reply |-> row]]
  /\ SignupsTurned(row.signupsEnabled)
  /\ UNCHANGED <<users, lastUser, companies, lastCompany, req, writes,
                 device, page, base, shown, regenerate>>

\* applyServerSettings with the row of the answer.
SettingsSaved(a) ==
  /\ page[a] = "settings" /\ save[a].at = "answered"
  /\ base' = [base EXCEPT ![a] = save[a].reply]
  /\ save' = [save EXCEPT ![a] = NoSave]
  /\ UNCHANGED <<accountVars, settings, device, page, shown, regenerate>>

-----------------------------------------------------------------------------
(* The webhook drawer. *)

\* Save is enabled before the device has arrived; the fields are blank then.
SubmitHook(a, edits) ==
  /\ page[a] = "drawer"
  /\ Send(a, edits, IF base[a] = NotLoaded THEN BlankHook ELSE base[a])

\* PATCH /devices/:id reads the row, then resolves the host of the URL.  A URL
\* that is not safe is refused (SaveFails).
ReadDevice(a) ==
  /\ page[a] = "drawer" /\ save[a].at = "sent"
  /\ save' = [save EXCEPT ![a].at = "read", ![a].read = secret]
  /\ UNCHANGED <<accountVars, settings, device, page, base, shown, regenerate>>

NewSecret ==
  /\ lastSecret' = lastSecret + 1
  /\ secret' = lastSecret + 1

\* A secret is generated only by a regeneration; also at a PATCH that has a URL
\* and has read that there is none.
RegenerationOnly(a) == FALSE
FirstUrl(a) == save[a].sent["webhookUrl"] # None /\ save[a].read = 0

UpdateDevice(a) ==
  /\ save[a].at = "read"
  /\ hook' = save[a].sent
  /\ IF FirstUrl(a) THEN NewSecret ELSE UNCHANGED <<secret, lastSecret>>
  /\ save' = [save EXCEPT ![a] = [at |-> "answered"]]
  /\ UNCHANGED <<accountVars, settings, page, base, shown, regenerate>>

\* onSaved, onClose.  A regeneration under way goes on at the server.
HookSaved(a) ==
  /\ page[a] = "drawer" /\ save[a].at = "answered"
  /\ Shut(a)
  /\ save' = [save EXCEPT ![a] = NoSave]
  /\ UNCHANGED <<accountVars, settings, device, regenerate>>

\* The button is there when the drawer shows a secret.
Regenerate(a) ==
  /\ Counted
  /\ shown[a] # 0 /\ regenerate[a] = "none"
  /\ regenerate' = [regenerate EXCEPT ![a] = "sent"]
  /\ UNCHANGED <<accounts, signupsEnabled, settings, device, page, base, shown, save>>

RegenerateSecret(a) ==
  /\ regenerate[a] = "sent"
  /\ NewSecret
  /\ regenerate' = [regenerate EXCEPT ![a] = "answered"]
  /\ UNCHANGED <<accountVars, settings, hook, page, base, shown, save>>

\* setDevice with the answer, which the form's other fields do not follow; or an error.
Regenerated(a) ==
  /\ regenerate[a] # "none"
  /\ regenerate' = [regenerate EXCEPT ![a] = "none"]
  /\ shown' = [shown EXCEPT ![a] = IF regenerate[a] = "answered" /\ page[a] = "drawer" THEN secret ELSE @]
  /\ UNCHANGED <<accountVars, settings, device, page, base, save>>

-----------------------------------------------------------------------------

FormsNext ==
  \E a \in Tabs :
    \/ Open(a, "settings") \/ Open(a, "drawer") \/ Load(a) \/ Close(a) \/ SaveFails(a)
    \/ \E e \in SettingEdits : SubmitSettings(a, e)
    \/ PatchSettings(a) \/ SettingsSaved(a)
    \/ \E e \in HookEdits : SubmitHook(a, e)
    \/ ReadDevice(a) \/ UpdateDevice(a) \/ HookSaved(a)
    \/ Regenerate(a) \/ RegenerateSecret(a) \/ Regenerated(a)

Next ==
  \/ AccountsNext /\ UNCHANGED <<settings, device, forms>>
  \/ FormsNext

Spec == Init /\ [][Next]_vars

-----------------------------------------------------------------------------
(* Properties. *)

\* The rows are consistent: those of the accounts, and a device with a webhook
\* URL has a secret to sign with.
TypeOK ==
  /\ AccountsOK
  /\ settings \in [SettingFields -> {1, 2}] /\ signupsEnabled \in BOOLEAN
  /\ hook \in [DOMAIN BlankHook -> {None, "set"} \cup Urls]
  /\ secret \in 0..lastSecret
  /\ hook["webhookUrl"] # None => secret # 0
  /\ \A a \in Tabs : page[a] \in {"none", "settings", "drawer"}

-----------------------------------------------------------------------------
(* What the repository's texts say and its code does not keep. *)

\* A webhook secret changes only where a new one was asked for: it "only supports
\* regenerate" (devices.ts:441).
SecretChangesByRegeneration ==
  [][secret # 0 /\ secret' # secret =>
       \E a \in Tabs : regenerate[a] = "sent" /\ regenerate'[a] = "answered"]_vars

\* Saving the settings changes no setting but those the administrator has edited:
\* it is "a genuine partial update" (settings.ts:17).
SavesWhatWasEdited ==
  [][\A a \in Tabs : page[a] = "settings" /\ save[a].at = "sent" /\ save'[a].at = "answered" =>
       \A f \in DOMAIN SettingsRow \ save[a].edited : SettingsRow'[f] = SettingsRow[f]]_vars

=============================================================================
