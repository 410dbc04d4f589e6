---------------------------- MODULE StoreSettings ----------------------------
(***************************************************************************)
(* The settings of a shop (admin/settings).  Eight tabs edit four documents*)
(* that "Save Changes" writes one after the other, and four that are never *)
(* sent.  The tenant's name and configuration live in the page; the        *)
(* storefront and the delivery profiles live in stores that outlast it.    *)
(***************************************************************************)
EXTENDS Integers, FiniteSets, SequencesExt

CONSTANTS MaxSections, \* bound: sections and banners of the storefront
          MaxProfiles, \* bound: delivery profiles
          MaxSsUses    \* bound: what the shop's administrator does

ASSUME StoreSettingsAssumption ==
    MaxSections \in Nat /\ MaxProfiles \in Nat /\ MaxSsUses \in Nat

VARIABLES ssPage,   \* the page
          ssStores, \* the two stores of the browser and what was loaded of them
          ssServer, \* tenant service and config service: document -> value
          ssUses    \* counts towards MaxSsUses

storeSettingsVars == <<ssPage, ssStores, ssServer, ssUses>>

(* The tabs whose inputs only ever change the page.                        *)
PaymentInputs == {"gateway", "methods", "min order"}
ShippingInputs == {"free shipping", "policy"}
MailInputs == {"smtp host", "notify"}
SecurityInputs == {"password policy", "two factor", "session"}
LocalTabs == {"payment", "shipping", "email", "security"}
LocalInputs == [payment |-> PaymentInputs, shipping |-> ShippingInputs,
                email |-> MailInputs, security |-> SecurityInputs]
SettingTabs == LocalTabs \cup {"general", "branding", "storefront", "features"}

Section(id, pos) == [id |-> id, pos |-> pos, enabled |-> TRUE]
DefaultStorefront ==
    [banners |-> {1}, sections |-> <<Section(1, 1), Section(2, 2)>>, texts |-> "default"]
Profile(id, default) == [id |-> id, default |-> default, rates |-> "default"]
DefaultProfiles == {Profile(1, TRUE), Profile(2, FALSE)}

SaveSteps == <<"tenant", "config", "storefront", "profiles">>
NotSaving == [step |-> 0]

SsFresh ==
    [tab |-> "general", load |-> 1, tenant |-> "default", config |-> "default",
     local |-> {}, save |-> NotSaving, saved |-> FALSE, error |-> FALSE,
     clean |-> TRUE] \* history: the save saw no edit and lost no profiles

StoreSettingsInit ==
    /\ ssPage = SsFresh /\ ssUses = 0
    /\ ssStores = [storefront |-> DefaultStorefront, loaded |-> FALSE, profiles |-> DefaultProfiles]
    /\ ssServer = [tenant |-> "first", config |-> "first",
                   storefront |-> DefaultStorefront, profiles |-> DefaultProfiles]

SsUsed == ssUses < MaxSsUses /\ ssUses' = ssUses + 1
Settled == ssPage.load > 3
Saving == ssPage.save # NotSaving

-----------------------------------------------------------------------------
(* load(): one document after the other; what cannot be read keeps the     *)
(* default or what the store already has.  fetchConfig asks only once.     *)
TenantLoads(ok) ==
    /\ ssPage.load = 1
    /\ ssPage' = [ssPage EXCEPT !.load = 2, !.tenant = IF ok THEN ssServer.tenant ELSE @,
                                !.config = IF ok THEN ssServer.config ELSE @]
    /\ UNCHANGED <<ssStores, ssServer, ssUses>>

StorefrontLoads(ok) ==
    /\ ssPage.load = 2
    /\ ssPage' = [ssPage EXCEPT !.load = 3]
    /\ ssStores' = [ssStores EXCEPT !.loaded = TRUE,
          !.storefront = IF ok /\ ~ssStores.loaded THEN ssServer.storefront ELSE @]
    /\ UNCHANGED <<ssServer, ssUses>>

ProfilesLoad(ok) ==
    /\ ssPage.load = 3
    /\ ssPage' = [ssPage EXCEPT !.load = 4]
    /\ ssStores' = [ssStores EXCEPT !.profiles = IF ok THEN ssServer.profiles ELSE @]
    /\ UNCHANGED <<ssServer, ssUses>>

-----------------------------------------------------------------------------
ShowSettingTab(tab) ==
    /\ Settled /\ SsUsed /\ ssPage.tab # tab
    /\ ssPage' = [ssPage EXCEPT !.tab = tab]
    /\ UNCHANGED <<ssStores, ssServer>>

(* An edit takes "Saved!" away, and is free while a save runs.             *)
Edited(p) == [p EXCEPT !.saved = FALSE, !.clean = @ /\ ~Saving]
EditOn(tab) == Settled /\ SsUsed /\ ssPage.tab = tab /\ UNCHANGED ssServer

TypeStoreName(v) ==
    /\ EditOn("general") /\ ssPage' = [Edited(ssPage) EXCEPT !.tenant = v]
    /\ UNCHANGED ssStores
UpdateGeneral(v) ==
    /\ EditOn("general") /\ ssPage' = [Edited(ssPage) EXCEPT !.config = v]
    /\ UNCHANGED ssStores
UpdateBranding(v) ==
    /\ EditOn("branding") /\ ssPage' = [Edited(ssPage) EXCEPT !.config = v]
    /\ UNCHANGED ssStores
ToggleFeature(v) ==
    /\ EditOn("features") /\ ssPage' = [Edited(ssPage) EXCEPT !.config = v]
    /\ UNCHANGED ssStores

EditLocal(input) ==
    /\ ssPage.tab \in LocalTabs /\ input \in LocalInputs[ssPage.tab]
    /\ EditOn(ssPage.tab) /\ ssPage' = [Edited(ssPage) EXCEPT !.local = @ \cup {input}]
    /\ UNCHANGED ssStores

(* The storefront tab: announcement bar and popup, footer and about page   *)
(* are texts; banners and sections are lists.                              *)
EditStorefront(v) ==
    /\ EditOn("storefront") /\ ssPage' = Edited(ssPage)
    /\ ssStores' = [ssStores EXCEPT !.storefront = v]

EditTexts(v) == EditStorefront([ssStores.storefront EXCEPT !.texts = v])

AddBanner ==
    \E b \in 1 .. MaxSections :
        b \notin ssStores.storefront.banners
        /\ EditStorefront([ssStores.storefront EXCEPT !.banners = @ \cup {b}])
RemoveBanner(b) ==
    /\ b \in ssStores.storefront.banners
    /\ EditStorefront([ssStores.storefront EXCEPT !.banners = @ \ {b}])

(* Sections are shown, and kept, in the order of their positions; a new    *)
(* one gets the number of sections plus one.                               *)
ByPosition(sections) == SortSeq(sections, LAMBDA a, b : a.pos < b.pos)
EditSections(sections) ==
    EditStorefront([ssStores.storefront EXCEPT !.sections = ByPosition(sections)])

AddSection ==
    LET s == ssStores.storefront.sections
        id == CHOOSE n \in 1 .. MaxSections + 1 : \A k \in DOMAIN s : s[k].id # n
    IN  Len(s) < MaxSections /\ EditSections(Append(s, Section(id, Len(s) + 1)))

UpdateSection(k) ==
    LET s == ssStores.storefront.sections
    IN  k \in DOMAIN s /\ EditSections([s EXCEPT ![k].enabled = ~@])

RemoveSection(k) ==
    LET s == ssStores.storefront.sections
    IN  k \in DOMAIN s /\ EditSections(RemoveAt(s, k))

(* moveSection swaps two neighbours and numbers all of them afresh.        *)
MoveSection(k, d) ==
    LET s == ssStores.storefront.sections
        swapped == [i \in DOMAIN s |-> s[IF i = k THEN k + d ELSE IF i = k + d THEN k ELSE i]]
    IN  /\ {k, k + d} \subseteq DOMAIN s
        /\ EditSections([i \in DOMAIN s |-> [swapped[i] EXCEPT !.pos = i]])

-----------------------------------------------------------------------------
(* Delivery profiles, on the shipping tab.                                 *)
EditProfiles(profiles) ==
    /\ EditOn("shipping") /\ ssPage' = Edited(ssPage)
    /\ ssStores' = [ssStores EXCEPT !.profiles = profiles]

AddProfile ==
    LET ps == ssStores.profiles
        id == CHOOSE n \in 1 .. MaxProfiles + 1 : \A p \in ps : p.id # n
    IN  Cardinality(ps) < MaxProfiles /\ EditProfiles(ps \cup {Profile(id, FALSE)})

UpdateProfile(p) ==
    EditProfiles((ssStores.profiles \ {p}) \cup {[p EXCEPT !.rates = "typed"]})

MakeDefaultProfile(p) ==
    EditProfiles({[q EXCEPT !.default = q.id = p.id] : q \in ssStores.profiles})

(* Mutant: the default profile can be removed.                             *)
RemoveAnyProfile(p) == EditProfiles(ssStores.profiles \ {p})

RemoveProfile(p) == ~p.default /\ EditProfiles(ssStores.profiles \ {p})

-----------------------------------------------------------------------------
(* handleSave works on the name, configuration and storefront of the       *)
(* click; the profiles are read when their turn comes.                     *)
HandleSaveStore ==
    /\ Settled /\ SsUsed /\ ~Saving
    /\ ssPage' = [ssPage EXCEPT !.error = FALSE, !.clean = TRUE,
          !.save = [step |-> 1, tenant |-> ssPage.tenant, config |-> ssPage.config,
                    storefront |-> ssStores.storefront, left |-> FALSE]]
    /\ UNCHANGED <<ssStores, ssServer>>

SaveStepStored ==
    LET doc == SaveSteps[ssPage.save.step]
    IN  ssServer' = [ssServer EXCEPT ![doc] =
            IF doc = "profiles" THEN ssStores.profiles ELSE ssPage.save[doc]]

NextSaveStep ==
    LET save == ssPage.save
    IN  IF save.step < Len(SaveSteps) THEN [ssPage EXCEPT !.save.step = @ + 1]
        ELSE [ssPage EXCEPT !.save = NotSaving, !.saved = ~save.left]

(* saveConfig puts the storefront of the click back into the store.        *)
SaveStepDone ==
    /\ Saving /\ SaveStepStored
    /\ ssPage' = NextSaveStep
    /\ ssStores' = IF SaveSteps[ssPage.save.step] = "storefront"
                   THEN [ssStores EXCEPT !.storefront = ssPage.save.storefront, !.loaded = TRUE]
                   ELSE ssStores
    /\ UNCHANGED ssUses

(* Mutant: the failure of every document is swallowed.                     *)
SaveStepGoesOn(written) ==
    /\ Saving
    /\ IF written THEN SaveStepStored ELSE UNCHANGED ssServer
    /\ ssPage' = NextSaveStep
    /\ UNCHANGED <<ssStores, ssUses>>

(* A failure ends the save with an error, whether the document was written *)
(* or not; that of the profiles is swallowed and counts as done.           *)
SaveStepFails(written) ==
    /\ Saving
    /\ IF written THEN SaveStepStored ELSE UNCHANGED ssServer
    /\ ssPage' = IF SaveSteps[ssPage.save.step] = "profiles"
                 THEN [NextSaveStep EXCEPT !.clean = @ /\ written]
                 ELSE [ssPage EXCEPT !.save = NotSaving, !.error = ~ssPage.save.left, !.clean = FALSE]
    /\ UNCHANGED <<ssStores, ssUses>>

SavedFades ==
    /\ ssPage.saved /\ ssPage' = [ssPage EXCEPT !.saved = FALSE]
    /\ UNCHANGED <<ssStores, ssServer, ssUses>>

(* The page is left and opened again, or the browser reloads it, which     *)
(* also ends a running save; the stores keep their contents either way.    *)
ReopenStoreSettings(reload) ==
    /\ SsUsed
    /\ ssPage' = [SsFresh EXCEPT !.save = IF Saving /\ ~reload
                                          THEN [ssPage.save EXCEPT !.left = TRUE] ELSE NotSaving]
    /\ ssStores' = [ssStores EXCEPT !.loaded = @ /\ ~reload]
    /\ UNCHANGED ssServer

StoreSettingsNext ==
    \/ \E ok \in BOOLEAN : TenantLoads(ok) \/ StorefrontLoads(ok) \/ ProfilesLoad(ok)
    \/ \E tab \in SettingTabs : ShowSettingTab(tab)
    \/ \E v \in {"first", "typed"} :
          TypeStoreName(v) \/ UpdateGeneral(v) \/ UpdateBranding(v) \/ ToggleFeature(v) \/ EditTexts(v)
    \/ \E input \in PaymentInputs \cup ShippingInputs \cup MailInputs \cup SecurityInputs : EditLocal(input)
    \/ AddBanner \/ \E b \in 1 .. MaxSections : RemoveBanner(b)
    \/ AddSection \/ \E k \in 1 .. MaxSections : UpdateSection(k) \/ RemoveSection(k)
    \/ \E k \in 1 .. MaxSections, d \in {-1, 1} : MoveSection(k, d)
    \/ AddProfile
    \/ \E p \in ssStores.profiles : UpdateProfile(p) \/ MakeDefaultProfile(p) \/ RemoveProfile(p)
    \/ HandleSaveStore \/ SaveStepDone \/ SavedFades
    \/ \E written \in BOOLEAN : SaveStepFails(written)
    \/ \E reload \in BOOLEAN : ReopenStoreSettings(reload)

-----------------------------------------------------------------------------
(* While the page says "Saved!" and no save runs, the services hold the    *)
(* four documents it shows, for a user who did not type while the save ran *)
(* and whose last save lost no document.                                   *)
SavedMeansStored ==
    ssPage.saved /\ ssPage.clean /\ ~Saving =>
        /\ ssServer.tenant = ssPage.tenant /\ ssServer.config = ssPage.config
        /\ ssServer.storefront = ssStores.storefront /\ ssServer.profiles = ssStores.profiles

(* There is always exactly one default delivery profile, in the browser    *)
(* and at the service: the checkout falls back to it.                      *)
OneDefaultProfile ==
    \A ps \in {ssStores.profiles, ssServer.profiles} : Cardinality({p \in ps : p.default}) = 1
=============================================================================
