--------------------------- MODULE PlatformSettings ---------------------------
(***************************************************************************)
(* The settings of the platform (super-admin/settings): five tabs of       *)
(* inputs, filled from the config service when the page opens and written  *)
(* back one tab at a time.  Plain inputs of one namespace move together    *)
(* and are one setting here; the password, the e-mail templates and the    *)
(* tables of languages and currencies behave differently and are apart.    *)
(***************************************************************************)
EXTENDS Naturals, FiniteSets

CONSTANTS RowCodes, \* codes of the languages and of the currencies
          OpenCodes, \* the rows enabled from the start
          HomeCode, \* the row that is the default one from the start
          MaxPsUses \* bound: inputs, switches and buttons used

ASSUME PlatformSettingsAssumption ==
    HomeCode \in OpenCodes /\ OpenCodes \subseteq RowCodes /\ MaxPsUses \in Nat

VARIABLES psPage,  \* the page, see PsFresh; tab is "loading" until load() is over
          psStored, \* what the config service holds: setting or table -> value
          psUses    \* counts towards MaxPsUses

platformSettingsVars == <<psPage, psStored, psUses>>

Tables == {"languages", "currencies"}
Settings == {"platform", "smtp", "password", "templates", "locale", "rules", "alerts"}
SettingsTabs == {"general", "email", "localization", "registration", "notifications"}
Unset == "unset"
NoBatch == [tab |-> "none"]

(* The values the page is written with: one row is the default.            *)
DefaultRows ==
    [c \in RowCodes |-> [enabled |-> c \in OpenCodes, isDefault |-> c = HomeCode]]

PsFresh ==
    [tab |-> "loading",
     form |-> [s \in Settings |-> IF s = "password" THEN "blank" ELSE "default"],
     tables |-> [t \in Tables |-> DefaultRows],
     picked |-> HomeCode,   \* the default language of the select
     editor |-> "closed",   \* the template editor
     probe |-> "none",      \* the test of the SMTP settings
     saving |-> NoBatch,    \* the batch being written
     toasts |-> {}]

(* What the inputs of each tab write to.                                   *)
GeneralInputs == {"platform"}
EmailInputs == {"smtp", "password", "templates"}
LocalizationInputs == {"locale"} \cup Tables
RegistrationInputs == {"rules"}
NotificationInputs == {"alerts"}

TabEntries(tab) ==
    CASE tab = "general" -> GeneralInputs
      [] tab = "email" -> EmailInputs
      [] tab = "localization" -> LocalizationInputs
      [] tab = "registration" -> RegistrationInputs
      [] OTHER -> NotificationInputs

PlatformSettingsInit ==
    /\ psPage = PsFresh /\ psUses = 0
    /\ psStored = [e \in Settings \cup Tables |-> IF e \in Tables THEN <<>> ELSE Unset]

-----------------------------------------------------------------------------
(* load(): a namespace that cannot be read counts as empty, an empty value *)
(* counts as absent, and neither the password nor the templates are read.  *)
Loaded(setting, failed) ==
    IF setting \in failed \cup {"password", "templates"}
       \/ psStored[setting] \in {Unset, "blank"}
    THEN PsFresh.form[setting] ELSE psStored[setting]

LoadedTable(table, failed) ==
    IF "locale" \in failed \/ psStored[table] = <<>> THEN DefaultRows ELSE psStored[table][1]

SettingsLoaded(failed) ==
    /\ psPage.tab = "loading"
    /\ psPage' = [psPage EXCEPT
          !.tab = "general",
          !.form = [s \in Settings |-> Loaded(s, failed)],
          !.tables = [t \in Tables |-> LoadedTable(t, failed)],
          !.picked = IF "locale" \in failed \/ psStored["locale"] = Unset THEN HomeCode
                     ELSE psStored["locale"]]
    /\ UNCHANGED <<psStored, psUses>>

(* Every use of an input counts towards the bound.                         *)
Use(tabs) ==
    /\ psPage.tab \in tabs /\ psUses < MaxPsUses /\ psUses' = psUses + 1
    /\ UNCHANGED psStored

NoEditor == psPage.editor = "closed"

ShowTab(tab) ==
    /\ Use(SettingsTabs \ {tab}) /\ NoEditor
    /\ psPage' = [psPage EXCEPT !.tab = tab]

(* The inputs of a tab write through to the page's state.  A text input    *)
(* can be emptied; the locale's selects and radios cannot.                 *)
EditSetting(s, v) ==
    /\ \E tab \in SettingsTabs : s \in TabEntries(tab) /\ Use({tab})
    /\ NoEditor /\ s # "templates" /\ (s = "locale" => v # "blank")
    /\ psPage' = [psPage EXCEPT !.form[s] = v]

(* The language select and the table's radio are two inputs of the same    *)
(* thing: the radio moves both, the select only its own value.             *)
PickLanguage(c) ==
    /\ Use({"localization"})
    /\ psPage' = [psPage EXCEPT !.picked = c]

MakeDefault(t, c) ==
    /\ Use({"localization"}) /\ psPage.tables[t][c].enabled
    /\ psPage' = [psPage EXCEPT
          !.tables[t] = [r \in RowCodes |-> [@[r] EXCEPT !.isDefault = r = c]],
          !.picked = IF t = "languages" THEN c ELSE @]

(* Mutant: the default's switch is on like any other.                      *)
ToggleAnyRow(t, c) ==
    /\ Use({"localization"})
    /\ psPage' = [psPage EXCEPT !.tables[t][c].enabled = ~@]

ToggleRow(t, c) ==
    /\ Use({"localization"}) /\ ~psPage.tables[t][c].isDefault
    /\ psPage' = [psPage EXCEPT !.tables[t][c].enabled = ~@]

-----------------------------------------------------------------------------
(* The template editor works on a copy; saving it only changes the page.   *)
OpenTemplateEditor ==
    /\ Use({"email"}) /\ NoEditor
    /\ psPage' = [psPage EXCEPT !.editor = "untouched"]

TypeInTemplate ==
    /\ Use({"email"}) /\ psPage.editor = "untouched"
    /\ psPage' = [psPage EXCEPT !.editor = "changed"]

SaveTemplateEdit ==
    /\ Use({"email"}) /\ ~NoEditor
    /\ psPage' = [psPage EXCEPT
          !.editor = "closed", !.toasts = @ \cup {"template updated"},
          !.form["templates"] = IF psPage.editor = "changed" THEN "typed" ELSE @]

CloseTemplateEditor ==
    /\ Use({"email"}) /\ ~NoEditor
    /\ psPage' = [psPage EXCEPT !.editor = "closed"]

(* The connection test asks no server: it waits and looks at the inputs as *)
(* they were when it was started.                                          *)
HandleTestSmtp ==
    /\ Use({"email"}) /\ NoEditor /\ psPage.probe \notin {"finds host", "finds none"}
    /\ psPage' = [psPage EXCEPT
          !.probe = IF psPage.form["smtp"] = "blank" THEN "finds none" ELSE "finds host"]

SmtpTested ==
    /\ psPage.probe \in {"finds host", "finds none"}
    /\ psPage' = [psPage EXCEPT !.probe = IF @ = "finds host" THEN "ok" ELSE "failed"]
    /\ UNCHANGED <<psStored, psUses>>

-----------------------------------------------------------------------------
(* buildEntries: the active tab only, as it is when Save is pressed; the   *)
(* password only when one was typed.                                       *)
BuildEntries ==
    LET value(e) == IF e \in Tables THEN <<psPage.tables[e]>>
                    ELSE IF e = "locale" THEN psPage.picked ELSE psPage.form[e]
        sent == {e \in TabEntries(psPage.tab) : e = "password" => psPage.form[e] # "blank"}
    IN  [e \in sent |-> value(e)]

HandleSaveSettings ==
    /\ Use(SettingsTabs) /\ NoEditor /\ psPage.saving = NoBatch
    /\ psPage' = [psPage EXCEPT !.saving = [tab |-> psPage.tab, entries |-> BuildEntries]]

(* The service writes the batch or refuses it; a batch that was written    *)
(* may still be answered with an error.                                    *)
BatchAnswered(written, ok) ==
    /\ psPage.saving # NoBatch /\ (ok => written)
    /\ psStored' = [e \in DOMAIN psStored |->
          IF written /\ e \in DOMAIN psPage.saving.entries
          THEN psPage.saving.entries[e] ELSE psStored[e]]
    /\ psPage' = [psPage EXCEPT !.saving = NoBatch,
                                !.toasts = @ \cup {IF ok THEN "saved" ELSE "error"}]
    /\ UNCHANGED psUses

(* A toast leaves after three seconds or when it is dismissed.             *)
ToastGone(toast) ==
    /\ toast \in psPage.toasts
    /\ psPage' = [psPage EXCEPT !.toasts = @ \ {toast}]
    /\ UNCHANGED <<psStored, psUses>>

(* The page is left and opened again.  Bound: not while a batch runs.      *)
ReopenSettings ==
    /\ Use(SettingsTabs) /\ psPage.saving = NoBatch
    /\ psPage' = PsFresh

PlatformSettingsNext ==
    \/ \E failed \in SUBSET {"platform", "locale"} : SettingsLoaded(failed)
    \/ \E tab \in SettingsTabs : ShowTab(tab)
    \/ \E s \in Settings \ {"locale"}, v \in {"typed", "blank"} : EditSetting(s, v)
    \/ \E c \in RowCodes : PickLanguage(c)
    \/ \E t \in Tables, c \in RowCodes : MakeDefault(t, c) \/ ToggleRow(t, c)
    \/ OpenTemplateEditor \/ TypeInTemplate \/ SaveTemplateEdit \/ CloseTemplateEditor
    \/ HandleTestSmtp \/ SmtpTested
    \/ HandleSaveSettings
    \/ \E written, ok \in BOOLEAN : BatchAnswered(written, ok)
    \/ \E toast \in psPage.toasts : ToastGone(toast)
    \/ ReopenSettings

-----------------------------------------------------------------------------
OneEnabledDefault(rows) ==
    \E c \in RowCodes : /\ rows[c].enabled
                        /\ {r \in RowCodes : rows[r].isDefault} = {c}

(* The shops always have one default language and one default currency,    *)
(* and both are enabled, on the screen and in what is stored, although the *)
(* two switches of a row are toggled one at a time and saved in between.   *)
DefaultsStayUsable ==
    \A t \in Tables : OneEnabledDefault(psPage.tables[t])
                      /\ (psStored[t] # <<>> => OneEnabledDefault(psStored[t][1]))
=============================================================================
