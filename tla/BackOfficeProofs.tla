---------------------------- MODULE BackOfficeProofs ----------------------------
(***************************************************************************)
(* Theorems about BackOffice, for any values of its constants and without  *)
(* the bounds of the runs.  A behaviour is about one desk; for every other *)
(* desk its steps stutter, so an invariant that the steps of a desk keep   *)
(* is one of the back office (DeskSteps).                                  *)
(***************************************************************************)
EXTENDS BackOffice, FiniteSetTheorems, WellFoundedInduction, TLAPS

\* A step of the back office is, for every desk, a step of it or nothing.
LEMMA DeskSteps ==
  ASSUME [BackOfficeNext]_backOfficeVars
  PROVE  /\ [PosNext]_posVars
         /\ [CategoryNext]_categoryVars
         /\ [ProductDeskNext]_productDeskVars
         /\ [PromotionNext]_promotionVars
         /\ [StockNext]_stockVars
         /\ [StoreSettingsNext]_storeSettingsVars
         /\ [PlatformSettingsNext]_platformSettingsVars
         /\ [PlatformPlansNext]_platformPlansVars
BY DEF BackOfficeNext, backOfficeVars, shopDeskVars, UseSales, UseCategories, UseProducts,
   UsePromotions, UseInventory, UseSettings, UsePlatformSettings, UsePlans

-----------------------------------------------------------------------------
(***************************************************************************)
(* Platform settings: the tables on the screen, in the batch that is being *)
(* written and in the store all have one default row, which is enabled.    *)
(***************************************************************************)

\* The values a table of rows can have.
Rows == {rows \in [RowCodes -> [enabled : BOOLEAN, isDefault : BOOLEAN]] : OneEnabledDefault(rows)}

\* A table that is written, and what the service holds of one.
Written(value) == \E rows \in Rows : value = <<rows>>

\* The page is a record with its fields.
HasFields(p) ==
    p = [tab |-> p.tab, form |-> p.form, tables |-> p.tables, picked |-> p.picked,
         editor |-> p.editor, probe |-> p.probe, saving |-> p.saving, toasts |-> p.toasts]

PsPageInv ==
    /\ HasFields(psPage)
    /\ psPage.tables \in [Tables -> Rows]
    /\ psPage.saving # NoBatch =>
          \A t \in Tables : t \in DOMAIN psPage.saving.entries => Written(psPage.saving.entries[t])

PsStoredInv ==
    /\ DOMAIN psStored = Settings \cup Tables
    /\ \A t \in Tables : psStored[t] = <<>> \/ Written(psStored[t])

PlatformSettingsInv == PsPageInv /\ PsStoredInv

\* The rows the page is written with are a table.
LEMMA DefaultRowsFit == DefaultRows \in Rows
<1>1. DefaultRows \in [RowCodes -> [enabled : BOOLEAN, isDefault : BOOLEAN]]
  BY DEF DefaultRows
<1>2. HomeCode \in RowCodes /\ HomeCode \in OpenCodes
  BY PlatformSettingsAssumption
<1>3. DefaultRows[HomeCode].enabled /\ {r \in RowCodes : DefaultRows[r].isDefault} = {HomeCode}
  BY <1>2 DEF DefaultRows
<1> QED
  BY <1>1, <1>2, <1>3 DEF Rows, OneEnabledDefault

\* A page that has just been opened.
LEMMA FreshPageFits == PsFresh.tables \in [Tables -> Rows] /\ PsFresh.saving = NoBatch
BY DefaultRowsFit DEF PsFresh

LEMMA PlatformSettingsInitInv == PlatformSettingsInit => PlatformSettingsInv
<1> SUFFICES ASSUME PlatformSettingsInit PROVE PlatformSettingsInv
  OBVIOUS
<1>1. PsPageInv
  BY FreshPageFits DEF PlatformSettingsInit, PsPageInv, PsFresh, HasFields
<1>2. PsStoredInv
  BY DEF PlatformSettingsInit, PsStoredInv
<1> QED
  BY <1>1, <1>2 DEF PlatformSettingsInv

\* What a step that leaves the tables and the batch alone keeps.
LEMMA TablesUntouched ==
  ASSUME PlatformSettingsInv, psStored' = psStored, psPage'.tables = psPage.tables,
         psPage'.saving = psPage.saving,
         HasFields(psPage')
  PROVE  PlatformSettingsInv'
BY DEF PlatformSettingsInv, PsPageInv, PsStoredInv

\* Loading: a table is what is stored or the one the page is written with.
LEMMA LoadingKeepsDefaults ==
  ASSUME PlatformSettingsInv, NEW failed \in SUBSET {"platform", "locale"}, SettingsLoaded(failed)
  PROVE  PlatformSettingsInv'
<1> DEFINE loaded == [t \in Tables |-> LoadedTable(t, failed)]
<1>1. ASSUME NEW t \in Tables PROVE LoadedTable(t, failed) \in Rows
  <2>1. CASE psStored[t] = <<>> \/ "locale" \in failed
    BY <2>1, DefaultRowsFit DEF LoadedTable
  <2>2. CASE psStored[t] # <<>> /\ "locale" \notin failed
    <3>1. PICK rows \in Rows : psStored[t] = <<rows>>
      BY <2>2 DEF PlatformSettingsInv, PsStoredInv, Written
    <3> QED
      BY <2>2, <3>1 DEF LoadedTable
  <2> QED
    BY <2>1, <2>2
<1>2. loaded \in [Tables -> Rows]
  BY <1>1
<1>3. /\ psPage'.tables = loaded /\ psPage'.saving = psPage.saving /\ psStored' = psStored
      /\ HasFields(psPage')
  BY DEF SettingsLoaded, PlatformSettingsInv, PsPageInv, HasFields
<1> HIDE DEF loaded
<1> QED
  BY <1>2, <1>3 DEF PlatformSettingsInv, PsPageInv, PsStoredInv

\* The radio of the default: one row becomes it, and it is enabled.
LEMMA MakeDefaultKeepsDefaults ==
  ASSUME PlatformSettingsInv, NEW t \in Tables, NEW c \in RowCodes, MakeDefault(t, c)
  PROVE  PlatformSettingsInv'
<1> DEFINE old == psPage.tables[t]
           new == [r \in RowCodes |-> [old[r] EXCEPT !.isDefault = r = c]]
<1>1. old \in Rows /\ psPage.tables \in [Tables -> Rows]
  BY DEF PlatformSettingsInv, PsPageInv, HasFields
<1>2. new \in [RowCodes -> [enabled : BOOLEAN, isDefault : BOOLEAN]]
  BY <1>1 DEF Rows
<1>3. new[c].enabled /\ {r \in RowCodes : new[r].isDefault} = {c}
  BY <1>1 DEF Rows, MakeDefault
<1>4. new \in Rows
  BY <1>2, <1>3 DEF Rows, OneEnabledDefault
<1>5. /\ psPage'.tables = [psPage.tables EXCEPT ![t] = new]
      /\ psPage'.saving = psPage.saving /\ psStored' = psStored
      /\ HasFields(psPage')
  BY DEF MakeDefault, Use, PlatformSettingsInv, PsPageInv, HasFields
<1> HIDE DEF new, old
<1>6. psPage'.tables \in [Tables -> Rows]
  BY <1>1, <1>4, <1>5
<1> QED
  BY <1>5, <1>6 DEF PlatformSettingsInv, PsPageInv, PsStoredInv

\* The switch of a row: the default row has none.
LEMMA ToggleKeepsDefaults ==
  ASSUME PlatformSettingsInv, NEW t \in Tables, NEW c \in RowCodes, ToggleRow(t, c)
  PROVE  PlatformSettingsInv'
<1> DEFINE old == psPage.tables[t]
           new == [old EXCEPT ![c].enabled = ~@]
<1>1. old \in Rows /\ psPage.tables \in [Tables -> Rows]
  BY DEF PlatformSettingsInv, PsPageInv, HasFields
<1>2. new \in [RowCodes -> [enabled : BOOLEAN, isDefault : BOOLEAN]]
  BY <1>1 DEF Rows
<1>3. PICK d \in RowCodes : old[d].enabled /\ {r \in RowCodes : old[r].isDefault} = {d}
  BY <1>1 DEF Rows, OneEnabledDefault
<1>4. ~old[c].isDefault
  BY DEF ToggleRow
<1>5. d # c
  BY <1>3, <1>4
<1>6. \A r \in RowCodes : new[r].isDefault = old[r].isDefault
  BY <1>1 DEF Rows
<1>7. new[d].enabled /\ {r \in RowCodes : new[r].isDefault} = {d}
  BY <1>1, <1>3, <1>5, <1>6 DEF Rows
<1>8. new \in Rows
  BY <1>2, <1>7 DEF Rows, OneEnabledDefault
<1>9. /\ psPage'.tables = [psPage.tables EXCEPT ![t] = new]
      /\ psPage'.saving = psPage.saving /\ psStored' = psStored
      /\ HasFields(psPage')
  BY DEF ToggleRow, Use, PlatformSettingsInv, PsPageInv, HasFields
<1> HIDE DEF new, old
<1>10. psPage'.tables \in [Tables -> Rows]
  BY <1>1, <1>8, <1>9
<1> QED
  BY <1>9, <1>10 DEF PlatformSettingsInv, PsPageInv, PsStoredInv

\* Save: the batch holds the tables of the screen.
LEMMA SavingKeepsDefaults ==
  ASSUME PlatformSettingsInv, HandleSaveSettings PROVE PlatformSettingsInv'
<1> DEFINE saving == [tab |-> psPage.tab, entries |-> BuildEntries]
<1>1. ASSUME NEW t \in Tables, t \in DOMAIN BuildEntries PROVE Written(BuildEntries[t])
  <2>1. BuildEntries[t] = <<psPage.tables[t]>>
    BY <1>1 DEF BuildEntries
  <2>2. psPage.tables[t] \in Rows
    BY DEF PlatformSettingsInv, PsPageInv, HasFields
  <2> QED
    BY <2>1, <2>2 DEF Written
<1>2. saving.entries = BuildEntries
  OBVIOUS
<1>3. /\ psPage'.tables = psPage.tables /\ psPage'.saving = saving /\ psStored' = psStored
      /\ HasFields(psPage')
  BY DEF HandleSaveSettings, Use, PlatformSettingsInv, PsPageInv, HasFields
<1> HIDE DEF saving
<1> QED
  BY <1>1, <1>2, <1>3 DEF PlatformSettingsInv, PsPageInv, PsStoredInv

\* The batch is written, or refused.
LEMMA BatchKeepsDefaults ==
  ASSUME PlatformSettingsInv, NEW written \in BOOLEAN, NEW ok \in BOOLEAN, BatchAnswered(written, ok)
  PROVE  PlatformSettingsInv'
<1>1. /\ psPage'.tables = psPage.tables /\ psPage'.saving = NoBatch
      /\ HasFields(psPage')
  BY DEF BatchAnswered, PlatformSettingsInv, PsPageInv, HasFields
<1>2. PsPageInv'
  BY <1>1 DEF PlatformSettingsInv, PsPageInv, HasFields
<1>3. DOMAIN psStored' = Settings \cup Tables
  BY DEF BatchAnswered, PlatformSettingsInv, PsStoredInv
<1>4. ASSUME NEW t \in Tables PROVE psStored'[t] = <<>> \/ Written(psStored'[t])
  <2>1. \/ psStored'[t] = psStored[t]
        \/ t \in DOMAIN psPage.saving.entries /\ psStored'[t] = psPage.saving.entries[t]
    BY DEF BatchAnswered, PlatformSettingsInv, PsStoredInv
  <2> QED
    BY <2>1 DEF BatchAnswered, PlatformSettingsInv, PsPageInv, PsStoredInv
<1> QED
  BY <1>2, <1>3, <1>4 DEF PlatformSettingsInv, PsStoredInv

\* Every step keeps the invariant.
LEMMA PlatformSettingsStepInv ==
  PlatformSettingsInv /\ [PlatformSettingsNext]_platformSettingsVars => PlatformSettingsInv'
<1> SUFFICES ASSUME PlatformSettingsInv, [PlatformSettingsNext]_platformSettingsVars
             PROVE  PlatformSettingsInv'
  OBVIOUS
<1>1. ASSUME NEW x, ShowTab(x) \/ PickLanguage(x) PROVE PlatformSettingsInv'
  BY <1>1, TablesUntouched DEF ShowTab, PickLanguage, Use, PlatformSettingsInv, PsPageInv, HasFields
<1>2. ASSUME NEW s, NEW v, EditSetting(s, v) PROVE PlatformSettingsInv'
  BY <1>2, TablesUntouched DEF EditSetting, Use, PlatformSettingsInv, PsPageInv, HasFields
<1>3. CASE OpenTemplateEditor \/ TypeInTemplate \/ SaveTemplateEdit \/ CloseTemplateEditor
  BY <1>3, TablesUntouched DEF OpenTemplateEditor, TypeInTemplate, SaveTemplateEdit,
     CloseTemplateEditor, Use, PlatformSettingsInv, PsPageInv, HasFields
<1>4. CASE HandleTestSmtp \/ SmtpTested
  BY <1>4, TablesUntouched DEF HandleTestSmtp, SmtpTested, Use, PlatformSettingsInv, PsPageInv, HasFields
<1>5. ASSUME NEW toast, ToastGone(toast) PROVE PlatformSettingsInv'
  BY <1>5, TablesUntouched DEF ToastGone, PlatformSettingsInv, PsPageInv, HasFields
<1>6. CASE ReopenSettings
  <2>1. psStored' = psStored /\ psPage' = PsFresh
    BY <1>6 DEF ReopenSettings, Use
  <2>2. PsPageInv'
    BY <2>1, FreshPageFits DEF PsPageInv, PsFresh, HasFields
  <2> QED
    BY <2>1, <2>2 DEF PlatformSettingsInv, PsStoredInv
<1>7. CASE UNCHANGED platformSettingsVars
  BY <1>7, TablesUntouched DEF platformSettingsVars, PlatformSettingsInv, PsPageInv, HasFields
<1> QED
  BY <1>1, <1>2, <1>3, <1>4, <1>5, <1>6, <1>7, LoadingKeepsDefaults, MakeDefaultKeepsDefaults,
     ToggleKeepsDefaults, SavingKeepsDefaults, BatchKeepsDefaults DEF PlatformSettingsNext

\* For any codes: on the screen and in the store, whatever was loaded, switched,
\* saved or refused in whichever order, exactly one language and one currency is
\* the default one, and it is enabled.
THEOREM DefaultsAreUsable == BackOfficeSpec => []DefaultsStayUsable
<1>1. PlatformSettingsInv => DefaultsStayUsable
  <2> SUFFICES ASSUME PlatformSettingsInv, NEW t \in Tables
               PROVE  /\ OneEnabledDefault(psPage.tables[t])
                      /\ psStored[t] # <<>> => OneEnabledDefault(psStored[t][1])
    BY DEF DefaultsStayUsable
  <2>1. OneEnabledDefault(psPage.tables[t])
    BY DEF PlatformSettingsInv, PsPageInv, Rows
  <2>2. psStored[t] # <<>> => OneEnabledDefault(psStored[t][1])
    BY DEF PlatformSettingsInv, PsStoredInv, Written, Rows
  <2> QED
    BY <2>1, <2>2
<1>2. BackOfficeInit => PlatformSettingsInv
  BY PlatformSettingsInitInv DEF BackOfficeInit
<1>3. PlatformSettingsInv /\ [BackOfficeNext]_backOfficeVars => PlatformSettingsInv'
  BY DeskSteps, PlatformSettingsStepInv
<1> QED
  BY <1>1, <1>2, <1>3, PTL DEF BackOfficeSpec
-----------------------------------------------------------------------------
(***************************************************************************)
(* Stock: while every request on an item was alone with it inside the      *)
(* service, a request that has read the row holds the quantity it still    *)
(* has, which is why what is on hand stays the sum of the movements.       *)
(***************************************************************************)

\* Every item has a quantity on hand, and it is the sum of the movements.
StockCounted ==
    /\ stock = [onHand |-> stock.onHand, movements |-> stock.movements,
                depots |-> stock.depots, serial |-> stock.serial]
    /\ stock.onHand = [g \in DOMAIN stock.onHand |-> stock.onHand[g]] /\ stock.serial \in BOOLEAN
    /\ stock.serial => stock.onHand = stock.movements

\* A request has the fields of one.
WellMade(c) == c \in [op : {c.op}, of : {c.of}, by : {c.by}, step : {c.step}, found : {c.found}]

\* A request that has read a row is the only one, and what it read still holds.
ReadIsFresh(c) ==
    c.step = "read" =>
        /\ c.op \in {"adjust", "sale"} /\ c.of \in DOMAIN stock.onHand
        /\ stock.serial => /\ c.found[1].onHand = stock.onHand[c.of]
                           /\ \A d \in stockCalls : d.step = "read" /\ d.of = c.of => d = c

StockInv == StockCounted /\ \A c \in stockCalls : WellMade(c) /\ ReadIsFresh(c)

\* A request just sent is well made.
LEMMA SentIsWellMade ==
  ASSUME NEW op, NEW of, NEW by
  PROVE  WellMade(StockCall(op, of, by)) /\ StockCall(op, of, by).step = "sent"
BY DEF WellMade, StockCall

LEMMA StockInitInv == StockInit => StockInv
<1> SUFFICES ASSUME StockInit PROVE StockInv
  OBVIOUS
<1>1. StockCounted
  BY StockAssumption DEF StockInit, StockCounted
<1>2. ASSUME NEW c \in stockCalls PROVE WellMade(c) /\ ReadIsFresh(c)
  BY SentIsWellMade DEF StockInit, LoadInventory, ReadIsFresh
<1> QED
  BY <1>1, <1>2 DEF StockInv

\* The page, and an answer, touch no row: requests are added or end.
LEMMA RowsUntouched ==
  ASSUME StockInv, UNCHANGED stock,
         \A c \in stockCalls' : c \in stockCalls \/ (WellMade(c) /\ c.step = "sent")
  PROVE  StockInv'
<1>1. StockCounted'
  BY DEF StockInv, StockCounted
<1>2. ASSUME NEW c \in stockCalls' PROVE WellMade(c) /\ ReadIsFresh(c)'
  BY <1>2 DEF StockInv, ReadIsFresh
<1> QED
  BY <1>1, <1>2 DEF StockInv, WellMade

LEMMA SendingKeepsInv ==
  ASSUME StockInv, UNCHANGED stock, NEW op, NEW of, NEW by,
         SkCalling(StockCall(op, of, by))
  PROVE  StockInv'
<1>1. WellMade(StockCall(op, of, by)) /\ StockCall(op, of, by).step = "sent"
  BY SentIsWellMade
<1>2. stockCalls' = stockCalls \cup {StockCall(op, of, by)}
  BY DEF SkCalling
<1> QED
  BY <1>1, <1>2, RowsUntouched

\* A request c moves on to c2 within the service.
LEMMA RequestMoves ==
  ASSUME StockInv, NEW c \in stockCalls, NEW step, NEW found, StepTo(c, step, found)
  PROVE  \E c2 : /\ stockCalls' = (stockCalls \ {c}) \cup {c2} /\ WellMade(c2)
                 /\ c2.op = c.op /\ c2.of = c.of /\ c2.step = step /\ c2.found = found
<1>1. PICK c2 : c2 = [c EXCEPT !.step = step, !.found = found]
  OBVIOUS
<1>2. WellMade(c)
  BY DEF StockInv
<1>3. c2 \in [op : {c.op}, of : {c.of}, by : {c.by}, step : {step}, found : {found}]
  BY <1>1, <1>2 DEF WellMade
<1>4. WellMade(c2) /\ c2.op = c.op /\ c2.of = c.of /\ c2.step = step /\ c2.found = found
  BY <1>2, <1>3 DEF WellMade
<1> QED
  BY <1>1, <1>4 DEF StepTo

\* A request is served without a row being read or written.
LEMMA OthersServed ==
  ASSUME StockInv, NEW c \in stockCalls, NEW step, NEW found, StepTo(c, step, found),
         step # "read", StockCounted', c.step # "read",
         stock'.serial => stock.serial,
         \A d \in stockCalls : d.step = "read" =>
            d.of \in DOMAIN stock'.onHand /\ stock'.onHand[d.of] = stock.onHand[d.of]
  PROVE  StockInv'
<1>1. PICK c2 : /\ stockCalls' = (stockCalls \ {c}) \cup {c2} /\ WellMade(c2)
                /\ c2.op = c.op /\ c2.of = c.of /\ c2.step = step /\ c2.found = found
  BY RequestMoves
<1>2. ASSUME NEW d \in stockCalls' PROVE WellMade(d) /\ ReadIsFresh(d)'
  BY <1>1 DEF StockInv, ReadIsFresh
<1> QED
  BY <1>2 DEF StockInv, WellMade

LEMMA ListsKeepInv ==
  ASSUME StockInv, NEW c \in stockCalls, ServeLists(c) PROVE StockInv'
<1>1. StockCounted' /\ stock' = stock
  BY DEF ServeLists, StockInv, StockCounted
<1>2. PICK found : StepTo(c, "served", found)
  BY DEF ServeLists
<1> QED
  BY <1>1, <1>2, OthersServed DEF ServeLists, StockInv, ReadIsFresh

LEMMA AdditionsKeepInv ==
  ASSUME StockInv, NEW c \in stockCalls, ServeAdditions(c) PROVE StockInv'
<1>1. PICK found : StepTo(c, "served", found)
  BY DEF ServeAdditions
<1>2. CASE c.op = "add depot" /\ stock' = [stock EXCEPT !.depots = @ \cup {c.of}]
  <2>1. StockCounted' /\ stock'.onHand = stock.onHand /\ stock'.serial = stock.serial
    BY <1>2 DEF StockInv, StockCounted
  <2> QED
    BY <1>1, <2>1, OthersServed DEF ServeAdditions, StockInv, ReadIsFresh
<1>3. CASE /\ c.op = "add item" /\ c.of \notin DOMAIN stock.onHand
           /\ stock' = [stock EXCEPT
                !.onHand = [g \in DOMAIN @ \cup {c.of} |-> IF g = c.of THEN c.by ELSE @[g]],
                !.movements = [g \in DOMAIN @ \cup {c.of} |-> IF g = c.of THEN c.by ELSE @[g]]]
  <2>2. PICK o, m, d, s : stock = [onHand |-> o, movements |-> m, depots |-> d, serial |-> s]
    BY DEF StockInv, StockCounted
  <2> DEFINE oo == [g \in DOMAIN o \cup {c.of} |-> IF g = c.of THEN c.by ELSE o[g]]
             mm == [g \in DOMAIN m \cup {c.of} |-> IF g = c.of THEN c.by ELSE m[g]]
  <2>3. stock' = [onHand |-> oo, movements |-> mm, depots |-> d, serial |-> s]
    BY <1>3, <2>2
  <2>4. o = [g \in DOMAIN o |-> o[g]] /\ s \in BOOLEAN /\ (s => o = m)
    BY <2>2 DEF StockInv, StockCounted
  <2>5. oo = [g \in DOMAIN oo |-> oo[g]] /\ (s => oo = mm)
    BY <2>4
  <2>6. StockCounted'
    BY <2>3, <2>4, <2>5 DEF StockCounted
  <2>7. \A x \in stockCalls : x.step = "read" =>
            x.of \in DOMAIN stock'.onHand /\ stock'.onHand[x.of] = stock.onHand[x.of]
    <3> SUFFICES ASSUME NEW x \in stockCalls, x.step = "read"
                 PROVE  x.of \in DOMAIN oo /\ oo[x.of] = o[x.of]
      BY <2>2, <2>3
    <3>1. x.of \in DOMAIN o /\ x.of # c.of
      BY <1>3, <2>2 DEF StockInv, ReadIsFresh
    <3> QED
      BY <3>1
  <2>8. stock'.serial => stock.serial
    BY <2>2, <2>3
  <2> QED
    BY <1>1, <2>6, <2>7, <2>8, OthersServed DEF ServeAdditions
<1> QED
  BY <1>2, <1>3 DEF ServeAdditions

\* A row is read: while nobody else has read it, what is read is fresh.
LEMMA ReadKeepsInv ==
  ASSUME StockInv, NEW c \in stockCalls, ReadStock(c) PROVE StockInv'
<1> DEFINE found == <<[good |-> c.of, onHand |-> stock.onHand[c.of]]>>
<1>1. StockCounted' /\ stock'.onHand = stock.onHand
      /\ (stock'.serial => stock.serial /\ Reading(c.of) = {})
  BY DEF ReadStock, StockInv, StockCounted
<1>2. /\ StepTo(c, "read", found) /\ c.of \in DOMAIN stock.onHand /\ c.step = "sent"
      /\ c.op \in {"adjust", "sale"}
  BY DEF ReadStock
<1>3. found[1].onHand = stock.onHand[c.of]
  OBVIOUS
<1> HIDE DEF found
<1>4. PICK c2 : /\ stockCalls' = (stockCalls \ {c}) \cup {c2} /\ WellMade(c2)
                /\ c2.op = c.op /\ c2.of = c.of /\ c2.step = "read" /\ c2.found = found
  BY <1>2, RequestMoves
<1>5. ASSUME NEW d \in stockCalls' PROVE WellMade(d) /\ ReadIsFresh(d)'
  <2>1. CASE d = c2
    BY <1>1, <1>2, <1>3, <1>4, <2>1 DEF StockInv, ReadIsFresh, Reading
  <2>2. CASE d # c2
    BY <1>1, <1>2, <1>3, <1>4, <2>2 DEF StockInv, ReadIsFresh, Reading
  <2> QED
    BY <2>1, <2>2
<1> QED
  BY <1>1, <1>5 DEF StockInv, WellMade

\* A row is written: what is added to it is what its movement says.
LEMMA WriteKeepsInv ==
  ASSUME StockInv, NEW c \in stockCalls, NEW noted \in BOOLEAN, WriteStock(c, noted) PROVE StockInv'
<1>1. c.step = "read" /\ c.of \in DOMAIN stock.onHand
  BY DEF WriteStock, StockInv, ReadIsFresh
<1>2. PICK o, m, d, s : stock = [onHand |-> o, movements |-> m, depots |-> d, serial |-> s]
  BY DEF StockInv, StockCounted
<1> DEFINE oo == [o EXCEPT ![c.of] = Total(c)]
           mm == [m EXCEPT ![c.of] = IF noted THEN @ + c.by ELSE @]
<1>3. stock' = [onHand |-> oo, movements |-> mm, depots |-> d, serial |-> s /\ noted]
  BY <1>2 DEF WriteStock
<1>4. o = [g \in DOMAIN o |-> o[g]] /\ s \in BOOLEAN /\ (s => o = m) /\ c.of \in DOMAIN o
  BY <1>1, <1>2 DEF StockInv, StockCounted
<1>5. oo = [g \in DOMAIN oo |-> oo[g]] /\ DOMAIN oo = DOMAIN o
  BY <1>1, <1>4
<1>6. s /\ noted => oo = mm
  <2>1. s => Total(c) = o[c.of] + c.by
    BY <1>1, <1>2 DEF Total, StockInv, ReadIsFresh
  <2> QED
    BY <1>4, <2>1
<1>7. StockCounted'
  BY <1>3, <1>4, <1>5, <1>6 DEF StockCounted
<1>8. PICK step, found : StepTo(c, step, found) /\ step # "read"
  BY DEF WriteStock
<1>9. PICK c2 : /\ stockCalls' = (stockCalls \ {c}) \cup {c2} /\ WellMade(c2)
                /\ c2.op = c.op /\ c2.of = c.of /\ c2.step = step /\ c2.found = found
  BY <1>8, RequestMoves
<1>10. ASSUME NEW x \in stockCalls' PROVE WellMade(x) /\ ReadIsFresh(x)'
  <2>1. CASE x = c2
    BY <1>8, <1>9, <2>1 DEF ReadIsFresh
  <2>2. CASE x # c2
    <3>1. x \in stockCalls /\ x # c /\ WellMade(x) /\ ReadIsFresh(x)
      BY <1>9, <2>2 DEF StockInv
    <3>2. x.step = "read" => x.of \in DOMAIN oo
      BY <1>2, <1>5, <3>1 DEF ReadIsFresh
    <3>3. x.step = "read" /\ s => x.of # c.of /\ x.found[1].onHand = o[x.of] /\ oo[x.of] = o[x.of]
      BY <1>1, <1>2, <1>4, <3>1 DEF ReadIsFresh
    <3>4. \A y \in stockCalls' : y.step = "read" => y \in stockCalls
      BY <1>8, <1>9
    <3> QED
      BY <1>2, <1>3, <3>1, <3>2, <3>3, <3>4 DEF ReadIsFresh
  <2> QED
    BY <2>1, <2>2
<1> QED
  BY <1>7, <1>10 DEF StockInv, WellMade

\* Every step keeps the invariant.
LEMMA StockStepInv == StockInv /\ [StockNext]_stockVars => StockInv'
<1> SUFFICES ASSUME StockInv, [StockNext]_stockVars PROVE StockInv'
  OBVIOUS
<1>1. CASE CloseAdjust \/ OpenAddWarehouse \/ OpenAddItem \/ CloseStockDialog
  BY <1>1, RowsUntouched DEF CloseAdjust, OpenAddWarehouse, OpenAddItem, CloseStockDialog, AtStockPage
<1>2. CASE HandleAddWarehouse \/ HandleAddItem
  BY <1>2, SendingKeepsInv DEF HandleAddWarehouse, HandleAddItem
<1>3. ASSUME NEW s, FilterStock(s) \/ OpenAdjust(s) \/ TypeQuantity(s) \/ OnProductSelect(s)
      PROVE  StockInv'
  <2>1. AtStockPage
    BY <1>3 DEF FilterStock, OpenAdjust, TypeQuantity, OnProductSelect
  <2> QED
    BY <2>1, RowsUntouched DEF AtStockPage
<1>4. ASSUME NEW s, HandleAdjust(s) \/ SaleElsewhere(s) PROVE StockInv'
  BY <1>4, SendingKeepsInv DEF HandleAdjust, SaleElsewhere
<1>5. ASSUME NEW c \in stockCalls, StockAnswered(c) \/ StockFails(c) PROVE StockInv'
  <2>1. stockCalls' = stockCalls \ {c} /\ UNCHANGED stock
    BY <1>5 DEF StockAnswered, StockFails
  <2> QED
    BY <2>1, RowsUntouched
<1>6. CASE UNCHANGED stockVars
  BY <1>6, RowsUntouched DEF stockVars
<1> QED
  BY <1>1, <1>2, <1>3, <1>4, <1>5, <1>6, ListsKeepInv, AdditionsKeepInv, ReadKeepsInv, WriteKeepsInv
  DEF StockNext

\* For any goods and any requests: what is on hand is what the recorded
\* movements add up to as long as no two requests met inside the service over
\* one item and none stopped half-way.
THEOREM StockAddsUp == BackOfficeSpec => []SerialStockAddsUp
<1>1. StockInv => SerialStockAddsUp
  BY DEF StockInv, StockCounted, SerialStockAddsUp
<1>2. BackOfficeInit => StockInv
  BY StockInitInv DEF BackOfficeInit
<1>3. StockInv /\ [BackOfficeNext]_backOfficeVars => StockInv'
  BY DeskSteps, StockStepInv
<1> QED
  BY <1>1, <1>2, <1>3, PTL DEF BackOfficeSpec

-----------------------------------------------------------------------------
(***************************************************************************)
(* The table of items.  Until the first lists are settled no product can   *)
(* be picked, so no addition is in flight when the table is set; an item   *)
(* that was added was not stocked, and what the table shows was.           *)
(***************************************************************************)

\* A sequence, and what a table of items is.
IsList(s) == \E n \in Nat : DOMAIN s = 1..n /\ s = [i \in 1..n |-> s[i]]
OneRowEach(rows) == \A i, j \in DOMAIN rows : rows[i].good = rows[j].good => i = j
TableFits(rows) ==
    /\ IsList(rows) /\ OneRowEach(rows)
    /\ \A i \in DOMAIN rows : rows[i].good \in DOMAIN stock.onHand

FirstLists == {"items", "depots"}

StockPageFields(p) ==
    p = [loading |-> p.loading, rows |-> p.rows, depots |-> p.depots, products |-> p.products,
         arrived |-> p.arrived, filter |-> p.filter, adjust |-> p.adjust,
         quantity |-> p.quantity, busy |-> p.busy, dialog |-> p.dialog, pick |-> p.pick]

\* Each of the first lists is on its way, has arrived or is settled.
ListsArriveOnce ==
    /\ \A a \in stockPage.arrived :
          /\ a.op \in FirstLists /\ \A c \in stockCalls : c.op # a.op
          /\ a.op = "items" /\ a.step = "served" => TableFits(a.found)
    /\ \A c, d \in stockCalls : c.op = d.op /\ c.op \in FirstLists => c = d
    /\ \A c \in stockCalls : c.op = "items" /\ c.step = "served" => TableFits(c.found)
    /\ stockPage.products =>
          stockPage.arrived = {} /\ \A c \in stockCalls : c.op \notin FirstLists

\* An item can be added when the lists are there; one that was is stocked, is
\* not in the table and was added by nobody else.
NewRow(c) == c.op = "add item" /\ c.step = "served"
AdditionsAreNew ==
    /\ ~stockPage.products =>
          stockPage.pick = NoGood /\ \A c \in stockCalls : c.op # "add item"
    /\ \A c \in stockCalls : NewRow(c) =>
          /\ c.found[1].good = c.of /\ c.of \in DOMAIN stock.onHand
          /\ \A i \in DOMAIN stockPage.rows : stockPage.rows[i].good # c.of
          /\ \A d \in stockCalls : NewRow(d) /\ d.of = c.of => d = c

RowsInv ==
    /\ StockPageFields(stockPage) /\ stockPage.products \in BOOLEAN
    /\ IsFiniteSet(DOMAIN stock.onHand)
    /\ TableFits(stockPage.rows) /\ ListsArriveOnce /\ AdditionsAreNew

\* A function from the first numbers is a list.
LEMMA ListOfFunction ==
  ASSUME NEW n \in Nat, NEW T, NEW s \in [1..n -> T] PROVE IsList(s)
<1>1. DOMAIN s = 1..n /\ s = [i \in 1..n |-> s[i]]
  OBVIOUS
<1> HIDE DEF IsList
<1> QED
  BY <1>1, Zenon DEF IsList

\* Appending to a list.
LEMMA AppendedList ==
  ASSUME NEW s, NEW n \in Nat, DOMAIN s = 1..n, s = [i \in 1..n |-> s[i]], NEW e
  PROVE  /\ DOMAIN Append(s, e) = 1..(n + 1)
         /\ Append(s, e) = [i \in 1..(n + 1) |-> Append(s, e)[i]]
         /\ \A i \in 1..n : Append(s, e)[i] = s[i]
         /\ Append(s, e)[n + 1] = e
<1> DEFINE T == {s[i] : i \in 1..n} \cup {e}
<1>1. s \in Seq(T) /\ e \in T /\ Len(s) = n
  <2>1. s \in [1..n -> T] /\ e \in T
    OBVIOUS
  <2> HIDE DEF T
  <2> QED
    BY <2>1
<1> HIDE DEF T
<1> QED
  BY <1>1

\* A finite set has a listing, and a listing has every element once.
LEMMA Listing ==
  ASSUME NEW S, IsFiniteSet(S), NEW s, s = CHOOSE t \in InSomeOrder(S) : TRUE
  PROVE  /\ s \in [1..Cardinality(S) -> S] /\ Cardinality(S) \in Nat
         /\ \A i, j \in DOMAIN s : s[i] = s[j] => i = j
<1> DEFINE n == Cardinality(S)
<1>1. n \in Nat /\ ExistsBijection(1..n, S)
  BY FS_CardinalityType
<1>2. PICK b : b \in Bijection(1..n, S)
  BY <1>1 DEF ExistsBijection
<1>3. b \in [1..n -> S] /\ \A x \in S : \E i \in 1..n : b[i] = x
  BY <1>2 DEF Bijection, Surjection
<1>4. b \in InSomeOrder(S)
  BY <1>3 DEF InSomeOrder
<1>5. s \in InSomeOrder(S)
  BY <1>4
<1>6. s \in [1..n -> S] /\ \A x \in S : \E i \in 1..n : s[i] = x
  BY <1>5 DEF InSomeOrder
<1>7. s \in Surjection(1..n, S)
  BY <1>6 DEF Surjection
<1>8. IsFiniteSet(1..n) /\ Cardinality(1..n) = n
  BY <1>1, FS_Interval
<1>9. s \in Injection(1..n, S)
  BY <1>1, <1>7, <1>8, FS_SurjSameCardinalityImpliesInj
<1> QED
  BY <1>1, <1>6, <1>9 DEF Injection, IsInjective

\* The list that the service answers with has every item once.
LEMMA ServedListFits ==
  ASSUME IsFiniteSet(DOMAIN stock.onHand), NEW s,
         s = CHOOSE t \in InSomeOrder(RowsOf(stock.onHand)) : TRUE
  PROVE  TableFits(s)
<1> DEFINE G == DOMAIN stock.onHand
           S == RowsOf(stock.onHand)
           f == [g \in G |-> [good |-> g, onHand |-> stock.onHand[g]]]
<1>1. f \in Surjection(G, S)
  BY DEF Surjection, RowsOf
<1>2. IsFiniteSet(S)
  BY <1>1, FS_Surjection
<1>3. /\ s \in [1..Cardinality(S) -> S] /\ Cardinality(S) \in Nat
      /\ \A i, j \in DOMAIN s : s[i] = s[j] => i = j
  BY <1>2, Listing
<1>4. \A x, y \in S : x.good \in G /\ (x.good = y.good => x = y)
  BY DEF RowsOf
<1> HIDE DEF G, S
<1>5. IsList(s)
  BY <1>3, ListOfFunction
<1>6. ASSUME NEW i \in DOMAIN s, NEW j \in DOMAIN s
      PROVE  s[i].good \in G /\ (s[i].good = s[j].good => i = j)
  <2>1. s[i] \in S /\ s[j] \in S
    BY <1>3
  <2> QED
    BY <2>1, <1>3, <1>4
<1> QED
  BY <1>5, <1>6 DEF TableFits, OneRowEach, G

\* Lists that came when less was stocked still fit.
LEMMA FitsLater ==
  ASSUME DOMAIN stock.onHand \subseteq DOMAIN stock'.onHand, NEW rows, TableFits(rows)
  PROVE  TableFits(rows)'
BY DEF TableFits, IsList, OneRowEach

LEMMA RowsInitInv == StockInit => RowsInv
<1> SUFFICES ASSUME StockInit PROVE RowsInv
  OBVIOUS
<1>1. StockPageFields(stockPage) /\ stockPage.products = FALSE /\ stockPage.rows = <<>>
      /\ stockPage.arrived = {} /\ stockPage.pick = NoGood
  BY DEF StockInit, StockPageFields
<1>a. stockCalls = LoadInventory
  BY DEF StockInit
<1>2. \A c \in stockCalls : c.op \in FirstLists /\ c.step = "sent"
  BY <1>a DEF LoadInventory, StockCall, FirstLists
<1>3. \A c, d \in stockCalls : c.op = d.op => c = d
  BY <1>a DEF LoadInventory, StockCall
<1>4. TableFits(<<>>)
  <2>1. <<>> \in [1..0 -> {}]
    OBVIOUS
  <2>2. IsList(<<>>)
    BY <2>1, ListOfFunction
  <2> QED
    BY <2>2 DEF TableFits, OneRowEach
<1>5. IsFiniteSet(DOMAIN stock.onHand)
  BY StockAssumption DEF StockInit
<1>6. ListsArriveOnce
  BY <1>1, <1>2, <1>3 DEF ListsArriveOnce
<1>7. AdditionsAreNew
  BY <1>1, <1>2 DEF AdditionsAreNew, NewRow, FirstLists
<1> QED
  BY <1>1, <1>4, <1>5, <1>6, <1>7 DEF RowsInv

\* What a step keeps that touches neither table nor service: calls may end and
\* others be sent, an addition once the lists are there.
LEMMA TableUntouched ==
  ASSUME RowsInv, stock' = stock, StockPageFields(stockPage'),
         stockPage'.rows = stockPage.rows, stockPage'.arrived = stockPage.arrived,
         stockPage'.products = stockPage.products,
         stockPage'.pick = NoGood \/ stockPage'.pick = stockPage.pick \/ stockPage.products,
         \A c \in stockCalls' : \/ c \in stockCalls
                                \/ /\ c.step = "sent" /\ c.op \notin FirstLists
                                   /\ c.op = "add item" => stockPage.products
  PROVE  RowsInv'
<1>1. \A rows : TableFits(rows)' <=> TableFits(rows)
  BY DEF TableFits, IsList, OneRowEach
<1>2. ListsArriveOnce'
  BY <1>1 DEF RowsInv, ListsArriveOnce
<1>3. AdditionsAreNew'
  <2>1. ~stockPage'.products =>
          stockPage'.pick = NoGood /\ \A c \in stockCalls' : c.op # "add item"
    BY DEF RowsInv, AdditionsAreNew
  <2>2. \A c \in stockCalls' : NewRow(c) => c \in stockCalls
    BY DEF NewRow
  <2>3. ASSUME NEW c \in stockCalls', NewRow(c)
        PROVE  /\ c.found[1].good = c.of /\ c.of \in DOMAIN stock.onHand
               /\ \A i \in DOMAIN stockPage.rows : stockPage.rows[i].good # c.of
               /\ \A d \in stockCalls' : NewRow(d) /\ d.of = c.of => d = c
    BY <2>2, <2>3 DEF RowsInv, AdditionsAreNew
  <2> QED
    BY <2>1, <2>3 DEF AdditionsAreNew, NewRow
<1> QED
  BY <1>1, <1>2, <1>3 DEF RowsInv

\* A request moves on within the service: a list is served as it is by then, an
\* addition when the item was not stocked.
LEMMA ServedKeepsRows ==
  ASSUME RowsInv, StockInv, NEW c \in stockCalls, NEW step, NEW found, StepTo(c, step, found),
         DOMAIN stock.onHand \subseteq DOMAIN stock'.onHand, IsFiniteSet(DOMAIN stock'.onHand),
         c.op = "items" => TableFits(found),
         c.op = "add item" => /\ step = "served" /\ found[1].good = c.of
                              /\ c.of \in DOMAIN stock'.onHand /\ c.of \notin DOMAIN stock.onHand
  PROVE  RowsInv'
<1>1. PICK c2 : /\ stockCalls' = (stockCalls \ {c}) \cup {c2} /\ WellMade(c2)
                /\ c2.op = c.op /\ c2.of = c.of /\ c2.step = step /\ c2.found = found
  BY ONLY RequestMoves, StockInv, c \in stockCalls, StepTo(c, step, found)
<1>2. stockPage' = stockPage
  BY DEF StepTo
<1>3. ListsArriveOnce'
  <2>1. \A a \in stockPage'.arrived :
          /\ a.op \in FirstLists /\ \A d \in stockCalls' : d.op # a.op
          /\ a.op = "items" /\ a.step = "served" => TableFits(a.found)'
    BY <1>1, <1>2, FitsLater DEF RowsInv, ListsArriveOnce
  <2>2. \A d, e \in stockCalls' : d.op = e.op /\ d.op \in FirstLists => d = e
    BY <1>1 DEF RowsInv, ListsArriveOnce
  <2>3. \A d \in stockCalls' : d.op = "items" /\ d.step = "served" => TableFits(d.found)'
    BY <1>1, FitsLater DEF RowsInv, ListsArriveOnce
  <2>4. stockPage'.products =>
          stockPage'.arrived = {} /\ \A d \in stockCalls' : d.op \notin FirstLists
    BY <1>1, <1>2 DEF RowsInv, ListsArriveOnce
  <2> QED
    BY <2>1, <2>2, <2>3, <2>4 DEF ListsArriveOnce
<1>4. AdditionsAreNew'
  <2>1. ~stockPage'.products =>
          stockPage'.pick = NoGood /\ \A d \in stockCalls' : d.op # "add item"
    BY <1>1, <1>2 DEF RowsInv, AdditionsAreNew
  <2>2. ASSUME NEW d \in stockCalls', NewRow(d)
        PROVE  /\ d.found[1].good = d.of /\ d.of \in DOMAIN stock'.onHand
               /\ \A i \in DOMAIN stockPage.rows : stockPage.rows[i].good # d.of
               /\ \A e \in stockCalls' : NewRow(e) /\ e.of = d.of => e = d
    <3>1. CASE d = c2
      BY <1>1, <2>2, <3>1 DEF RowsInv, AdditionsAreNew, NewRow, TableFits
    <3>2. CASE d # c2
      <4>1. /\ d \in stockCalls /\ d.found[1].good = d.of /\ d.of \in DOMAIN stock.onHand
            /\ \A i \in DOMAIN stockPage.rows : stockPage.rows[i].good # d.of
            /\ \A e \in stockCalls : NewRow(e) /\ e.of = d.of => e = d
        BY <1>1, <2>2, <3>2 DEF RowsInv, AdditionsAreNew
      <4>2. NewRow(c2) => c2.of # d.of
        BY <1>1, <4>1 DEF NewRow
      <4> QED
        BY <1>1, <4>1, <4>2
    <3> QED
      BY <3>1, <3>2
  <2> QED
    BY <1>2, <2>1, <2>2 DEF AdditionsAreNew, NewRow
<1> QED
  BY <1>2, <1>3, <1>4, FitsLater DEF RowsInv

\* A first list arrives, or its failure; with the last one the table is set.
LEMMA ArrivingKeepsRows ==
  ASSUME RowsInv, NEW c \in stockCalls, c.op \in FirstLists, NEW a, a.op = c.op,
         a.op = "items" /\ a.step = "served" => TableFits(a.found),
         stock' = stock, stockCalls' = stockCalls \ {c},
         stockPage' = Settle([stockPage EXCEPT !.arrived = @ \cup {a}])
  PROVE  RowsInv'
<1> DEFINE arrived == stockPage.arrived \cup {a}
<1>1. PICK page : page = [stockPage EXCEPT !.arrived = arrived]
  OBVIOUS
<1>2. /\ StockPageFields(page) /\ page.arrived = arrived /\ page.rows = stockPage.rows
      /\ page.products = stockPage.products /\ page.pick = stockPage.pick
  BY <1>1 DEF RowsInv, StockPageFields
<1>3. ~stockPage.products /\ stockPage.products \in BOOLEAN
  BY DEF RowsInv, ListsArriveOnce
<1>4. \A d \in stockCalls' : d.op # a.op
  BY DEF RowsInv, ListsArriveOnce
<1>5. \A rows : TableFits(rows)' <=> TableFits(rows)
  BY DEF TableFits, IsList, OneRowEach
<1>6. stockPage' = Settle(page)
  BY <1>1
<1>7. CASE {x.op : x \in arrived} # {"items", "depots"}
  <2>1. stockPage' = page
    BY <1>2, <1>6, <1>7 DEF Settle
  <2>2. ListsArriveOnce'
    BY <1>2, <1>3, <1>4, <1>5, <2>1 DEF RowsInv, ListsArriveOnce
  <2>3. AdditionsAreNew'
    BY <1>2, <1>3, <2>1 DEF RowsInv, AdditionsAreNew, NewRow
  <2> QED
    BY <1>2, <1>3, <1>5, <2>1, <2>2, <2>3 DEF RowsInv
<1>8. CASE {x.op : x \in arrived} = {"items", "depots"}
  <2> DEFINE ok(op) == {x \in arrived : x.op = op /\ x.step = "served"}
             rows == IF ok("items") = {} THEN stockPage.rows ELSE (CHOOSE x \in ok("items") : TRUE).found
             depots == IF ok("depots") = {} THEN page.depots ELSE (CHOOSE x \in ok("depots") : TRUE).found
  <2>1. stockPage' = [page EXCEPT !.loading = FALSE, !.arrived = {}, !.products = TRUE,
                        !.rows = rows, !.depots = depots]
    BY <1>2, <1>6, <1>8 DEF Settle
  <2>2. TableFits(rows)
    <3>1. CASE ok("items") = {}
      BY <3>1 DEF RowsInv
    <3>2. CASE ok("items") # {}
      <4>1. PICK x \in ok("items") : x = CHOOSE y \in ok("items") : TRUE
        BY <3>2
      <4>2. TableFits(x.found)
        BY <4>1 DEF RowsInv, ListsArriveOnce
      <4> QED
        BY <3>2, <4>1, <4>2
    <3> QED
      BY <3>1, <3>2
  <2> HIDE DEF rows, depots
  <2>3. /\ StockPageFields(stockPage') /\ stockPage'.rows = rows /\ stockPage'.arrived = {}
        /\ stockPage'.products = TRUE
    BY <1>2, <2>1 DEF StockPageFields
  <2>4. \A op \in FirstLists : \E x \in arrived : x.op = op
    BY <1>8 DEF FirstLists
  <2>5. \A d \in stockCalls' : d.op \notin FirstLists
    BY <1>4, <2>4 DEF RowsInv, ListsArriveOnce
  <2>6. ListsArriveOnce'
    BY <2>3, <2>5 DEF ListsArriveOnce, FirstLists
  <2>7. \A d \in stockCalls' : d.op # "add item"
    BY <1>3 DEF RowsInv, AdditionsAreNew
  <2>8. AdditionsAreNew'
    BY <2>3, <2>7 DEF AdditionsAreNew, NewRow
  <2> QED
    BY <1>5, <2>2, <2>3, <2>6, <2>8 DEF RowsInv
<1> QED
  BY <1>7, <1>8

\* The answer to an adjustment replaces the row of its item.
LEMMA ReplacingKeepsRows ==
  ASSUME RowsInv, NEW c \in stockCalls, stock' = stock, stockCalls' = stockCalls \ {c},
         StockPageFields(stockPage'), NEW new, stockPage'.rows = ReplaceRow(stockPage.rows, new),
         stockPage'.arrived = stockPage.arrived, stockPage'.products = stockPage.products,
         stockPage'.pick = stockPage.pick
  PROVE  RowsInv'
<1> DEFINE old == stockPage.rows
           rows == ReplaceRow(stockPage.rows, new)
<1>1. TableFits(old)
  BY DEF RowsInv
<1>2. PICK n \in Nat : DOMAIN old = 1..n
  BY <1>1 DEF TableFits, IsList
<1>3. DOMAIN rows = 1..n /\ \A i \in 1..n : rows[i].good = old[i].good
  BY <1>2 DEF ReplaceRow
<1>4. IsList(rows)
  <2>1. rows \in [1..n -> {rows[i] : i \in 1..n}]
    BY <1>2 DEF ReplaceRow
  <2> HIDE DEF rows
  <2> QED
    BY <2>1, ListOfFunction
<1> HIDE DEF rows
<1>5. TableFits(rows)
  BY <1>1, <1>2, <1>3, <1>4 DEF TableFits, OneRowEach
<1>6. \A list : TableFits(list)' <=> TableFits(list)
  BY DEF TableFits, IsList, OneRowEach
<1>7. stockPage'.rows = rows
  BY DEF rows
<1>8. ListsArriveOnce'
  BY <1>6 DEF RowsInv, ListsArriveOnce
<1>9. AdditionsAreNew'
  <2>1. \A g : (\A i \in DOMAIN old : old[i].good # g) => \A i \in DOMAIN rows : rows[i].good # g
    BY <1>2, <1>3
  <2>2. \A g : (\A i \in DOMAIN old : old[i].good # g) => \A i \in DOMAIN stockPage'.rows : stockPage'.rows[i].good # g
    BY <1>7, <2>1
  <2> HIDE DEF old
  <2>3. \A d \in stockCalls : NewRow(d) =>
          /\ d.found[1].good = d.of /\ d.of \in DOMAIN stock.onHand
          /\ \A i \in DOMAIN old : old[i].good # d.of
          /\ \A e \in stockCalls : NewRow(e) /\ e.of = d.of => e = d
    BY DEF RowsInv, AdditionsAreNew, old
  <2>4. ~stockPage'.products =>
          stockPage'.pick = NoGood /\ \A d \in stockCalls' : d.op # "add item"
    BY DEF RowsInv, AdditionsAreNew
  <2>5. ASSUME NEW d \in stockCalls', NewRow(d)
        PROVE  /\ d.found[1].good = d.of /\ d.of \in DOMAIN stock'.onHand
               /\ \A i \in DOMAIN stockPage'.rows : stockPage'.rows[i].good # d.of
               /\ \A e \in stockCalls' : NewRow(e) /\ e.of = d.of => e = d
    BY <2>2, <2>3, <2>5
  <2> QED
    BY <2>4, <2>5 DEF AdditionsAreNew, NewRow
<1> QED
  BY <1>5, <1>6, <1>7, <1>8, <1>9 DEF RowsInv

\* The answer to an addition appends its row: the item had none.
LEMMA AppendingKeepsRows ==
  ASSUME RowsInv, NEW c \in stockCalls, NewRow(c), stock' = stock, stockCalls' = stockCalls \ {c},
         StockPageFields(stockPage'), stockPage'.rows = Append(stockPage.rows, c.found[1]),
         stockPage'.arrived = stockPage.arrived, stockPage'.products = stockPage.products,
         stockPage'.pick = NoGood
  PROVE  RowsInv'
<1> DEFINE old == stockPage.rows
           new == c.found[1]
           rows == Append(old, new)
<1>1. TableFits(old)
  BY DEF RowsInv
<1>2. PICK n \in Nat : DOMAIN old = 1..n /\ old = [i \in 1..n |-> old[i]]
  BY <1>1 DEF TableFits, IsList
<1>3. /\ DOMAIN rows = 1..(n + 1) /\ rows = [i \in 1..(n + 1) |-> rows[i]]
      /\ \A i \in 1..n : rows[i] = old[i]
      /\ rows[n + 1] = new
  <2> HIDE DEF old, new
  <2> QED
    BY <1>2, AppendedList
<1>4. /\ new.good = c.of /\ c.of \in DOMAIN stock.onHand
      /\ \A i \in 1..n : old[i].good # c.of
  BY <1>2 DEF RowsInv, AdditionsAreNew
<1> HIDE DEF rows, new
<1>5. IsList(rows)
  <2>1. n + 1 \in Nat /\ rows \in [1..(n + 1) -> {rows[i] : i \in 1..(n + 1)}]
    BY <1>3
  <2> QED
    BY <2>1, ListOfFunction
<1>6. OneRowEach(rows) /\ \A i \in DOMAIN rows : rows[i].good \in DOMAIN stock.onHand
  <2>1. \A i \in DOMAIN rows : i \in 1..n \/ i = n + 1
    BY <1>3
  <2>2. \A i \in 1..n : rows[i].good = old[i].good /\ old[i].good \in DOMAIN stock.onHand
    BY <1>1, <1>2, <1>3 DEF TableFits
  <2>3. rows[n + 1].good = c.of
    BY <1>3, <1>4
  <2>4. \A i, j \in 1..n : old[i].good = old[j].good => i = j
    BY <1>1, <1>2 DEF TableFits, OneRowEach
  <2> HIDE DEF old
  <2>5. ASSUME NEW i \in DOMAIN rows, NEW j \in DOMAIN rows, rows[i].good = rows[j].good
        PROVE  i = j
    BY <1>4, <2>1, <2>2, <2>3, <2>4, <2>5
  <2>6. \A i \in DOMAIN rows : rows[i].good \in DOMAIN stock.onHand
    BY <1>4, <2>1, <2>2, <2>3
  <2> QED
    BY <2>5, <2>6 DEF OneRowEach
<1>7. TableFits(rows)
  BY <1>5, <1>6 DEF TableFits
<1>8. \A list : TableFits(list)' <=> TableFits(list)
  BY DEF TableFits, IsList, OneRowEach
<1>9. stockPage'.rows = rows
  BY DEF rows, new
<1>10. ListsArriveOnce'
  BY <1>8 DEF RowsInv, ListsArriveOnce
<1>11. AdditionsAreNew'
  <2>1. ~stockPage'.products =>
          stockPage'.pick = NoGood /\ \A d \in stockCalls' : d.op # "add item"
    BY DEF RowsInv, AdditionsAreNew
  <2>2. ASSUME NEW d \in stockCalls', NewRow(d)
        PROVE  /\ d.found[1].good = d.of /\ d.of \in DOMAIN stock.onHand
               /\ \A i \in DOMAIN rows : rows[i].good # d.of
               /\ \A e \in stockCalls' : NewRow(e) /\ e.of = d.of => e = d
    <3>1. /\ d \in stockCalls /\ d # c /\ d.found[1].good = d.of /\ d.of \in DOMAIN stock.onHand
          /\ \A i \in DOMAIN old : old[i].good # d.of
          /\ \A e \in stockCalls : NewRow(e) /\ e.of = d.of => e = d
      BY <2>2 DEF RowsInv, AdditionsAreNew
    <3>2. c.of # d.of
      BY <3>1
    <3>3. ASSUME NEW i \in DOMAIN rows PROVE rows[i].good # d.of
      <4>1. CASE i = n + 1
        BY <1>3, <1>4, <3>2, <4>1
      <4>2. CASE i \in 1..n
        BY <1>2, <1>3, <3>1, <4>2
      <4> QED
        BY <1>3, <4>1, <4>2
    <3> QED
      BY <3>1, <3>3
  <2> QED
    BY <1>9, <2>1, <2>2 DEF AdditionsAreNew, NewRow
<1> QED
  BY <1>7, <1>8, <1>9, <1>10, <1>11 DEF RowsInv

\* Every step keeps the table's invariant.
LEMMA RowsStepInv == RowsInv /\ StockInv /\ [StockNext]_stockVars => RowsInv'
<1> SUFFICES ASSUME RowsInv, StockInv, [StockNext]_stockVars PROVE RowsInv'
  OBVIOUS
<1>1. CASE CloseAdjust \/ OpenAddWarehouse \/ OpenAddItem \/ CloseStockDialog
  BY <1>1, TableUntouched DEF CloseAdjust, OpenAddWarehouse, OpenAddItem, CloseStockDialog,
     AtStockPage, RowsInv, StockPageFields
<1>2. ASSUME NEW s, FilterStock(s) \/ OpenAdjust(s) \/ TypeQuantity(s) PROVE RowsInv'
  BY <1>2, TableUntouched DEF FilterStock, OpenAdjust, TypeQuantity, AtStockPage, RowsInv,
     StockPageFields
<1>3. ASSUME NEW g, OnProductSelect(g) PROVE RowsInv'
  <2>1. stockPage.products
    BY <1>3 DEF OnProductSelect, ProductOptions
  <2> QED
    BY <1>3, <2>1, TableUntouched DEF OnProductSelect, AtStockPage, RowsInv, StockPageFields
<1>4. ASSUME NEW op, NEW of, NEW by, SkCalling(StockCall(op, of, by)), op \notin FirstLists,
             op = "add item" => stockPage.products,
             stock' = stock, StockPageFields(stockPage'),
             stockPage'.rows = stockPage.rows, stockPage'.arrived = stockPage.arrived,
             stockPage'.products = stockPage.products, stockPage'.pick = stockPage.pick
      PROVE  RowsInv'
  <2>1. PICK call : call = StockCall(op, of, by)
    OBVIOUS
  <2>2. call.op = op /\ call.step = "sent" /\ stockCalls' = stockCalls \cup {call}
    BY <1>4, <2>1 DEF StockCall, SkCalling
  <2> QED
    BY <1>4, <2>2, TableUntouched
<1>5. ASSUME NEW sign, HandleAdjust(sign) PROVE RowsInv'
  <2>1. /\ stock' = stock
        /\ \E of, by : SkCalling(StockCall("adjust", of, by))
        /\ StockPageFields(stockPage') /\ stockPage'.rows = stockPage.rows
        /\ stockPage'.arrived = stockPage.arrived /\ stockPage'.products = stockPage.products
        /\ stockPage'.pick = stockPage.pick
    BY <1>5 DEF HandleAdjust, RowsInv, StockPageFields
  <2> QED
    BY <1>4, <2>1 DEF FirstLists
<1>6. ASSUME NEW g, SaleElsewhere(g) PROVE RowsInv'
  <2>1. \E by : SkCalling(StockCall("sale", g, by))
    BY <1>6 DEF SaleElsewhere
  <2>2. UNCHANGED <<stock, stockPage>> /\ StockPageFields(stockPage)
    BY <1>6 DEF SaleElsewhere, RowsInv
  <2> QED
    BY <1>4, <2>1, <2>2 DEF FirstLists
<1>7. CASE HandleAddWarehouse
  BY <1>4, <1>7 DEF HandleAddWarehouse, RowsInv, StockPageFields, FirstLists
<1>8. CASE HandleAddItem
  <2>1. stockPage.products
    BY <1>8 DEF HandleAddItem, RowsInv, AdditionsAreNew
  <2>2. /\ stock' = stock
        /\ \E of, by : SkCalling(StockCall("add item", of, by))
        /\ StockPageFields(stockPage') /\ stockPage'.rows = stockPage.rows
        /\ stockPage'.arrived = stockPage.arrived /\ stockPage'.products = stockPage.products
        /\ stockPage'.pick = stockPage.pick
    BY <1>8 DEF HandleAddItem, RowsInv, StockPageFields
  <2> QED
    BY <1>4, <2>1, <2>2 DEF FirstLists
<1>9. ASSUME NEW c \in stockCalls, ServeLists(c) PROVE RowsInv'
  <2>1. IsFiniteSet(DOMAIN stock.onHand) /\ stock' = stock
    BY <1>9 DEF RowsInv, ServeLists
  <2>2. PICK found : StepTo(c, "served", found) /\ (c.op = "items" => TableFits(found))
    BY <1>9, <2>1, ServedListFits DEF ServeLists
  <2> QED
    BY <1>9, <2>1, <2>2, ServedKeepsRows DEF ServeLists
<1>10. ASSUME NEW c \in stockCalls, ServeAdditions(c) PROVE RowsInv'
  <2>1. PICK o, m, d, s : stock = [onHand |-> o, movements |-> m, depots |-> d, serial |-> s]
    BY DEF StockInv, StockCounted
  <2>2. CASE c.op = "add depot"
    <3>1. stock'.onHand = stock.onHand /\ StepTo(c, "served", <<>>)
      BY <1>10, <2>1, <2>2 DEF ServeAdditions
    <3> QED
      BY <2>2, <3>1, ServedKeepsRows DEF RowsInv
  <2>3. CASE c.op = "add item"
    <3> DEFINE found == <<[good |-> c.of, onHand |-> c.by]>>
    <3>a. /\ c.of \notin DOMAIN o /\ StepTo(c, "served", found)
          /\ stock' = [stock EXCEPT
                !.onHand = [g \in DOMAIN @ \cup {c.of} |-> IF g = c.of THEN c.by ELSE @[g]],
                !.movements = [g \in DOMAIN @ \cup {c.of} |-> IF g = c.of THEN c.by ELSE @[g]]]
      BY <1>10, <2>1, <2>3 DEF ServeAdditions
    <3>1. /\ DOMAIN stock'.onHand = DOMAIN o \cup {c.of} /\ c.of \notin DOMAIN o
          /\ StepTo(c, "served", found)
      BY <2>1, <3>a
    <3>2. IsFiniteSet(DOMAIN o) /\ stock.onHand = o
      BY <2>1 DEF RowsInv
    <3>3. IsFiniteSet(DOMAIN stock'.onHand)
      BY <3>1, <3>2, FS_AddElement
    <3>4. found[1].good = c.of
      OBVIOUS
    <3> HIDE DEF found
    <3> QED
      BY <2>3, <3>1, <3>2, <3>3, <3>4, ServedKeepsRows
  <2> QED
    BY <1>10, <2>2, <2>3 DEF ServeAdditions
<1>11. ASSUME NEW c \in stockCalls, ReadStock(c) PROVE RowsInv'
  <2>1. stock'.onHand = stock.onHand
    BY <1>11 DEF ReadStock, StockInv, StockCounted
  <2>2. PICK found : StepTo(c, "read", found) /\ c.op \in {"adjust", "sale"}
    BY <1>11 DEF ReadStock
  <2> QED
    BY <2>1, <2>2, ServedKeepsRows DEF RowsInv
<1>12. ASSUME NEW c \in stockCalls, NEW noted \in BOOLEAN, WriteStock(c, noted) PROVE RowsInv'
  <2>1. PICK o, m, d, s : stock = [onHand |-> o, movements |-> m, depots |-> d, serial |-> s]
    BY DEF StockInv, StockCounted
  <2>2. DOMAIN stock'.onHand = DOMAIN o
    BY <1>12, <2>1 DEF WriteStock
  <2>3. PICK step, found : StepTo(c, step, found)
    BY <1>12 DEF WriteStock
  <2>4. c.op \notin {"items", "add item"}
    BY <1>12 DEF WriteStock, StockInv, ReadIsFresh
  <2> QED
    BY <2>1, <2>2, <2>3, <2>4, ServedKeepsRows DEF RowsInv
<1>13. ASSUME NEW c \in stockCalls, StockAnswered(c) PROVE RowsInv'
  <2>1. stock' = stock /\ stockCalls' = stockCalls \ {c} /\ c.step = "served"
    BY <1>13 DEF StockAnswered
  <2>2. CASE c.op \in FirstLists
    <3>1. stockPage' = Settle([stockPage EXCEPT !.arrived = @ \cup {c}])
      BY <1>13, <2>2 DEF StockAnswered, FirstLists
    <3>2. c.op = "items" => TableFits(c.found)
      BY <2>1 DEF RowsInv, ListsArriveOnce
    <3> QED
      BY <2>1, <2>2, <3>1, <3>2, ArrivingKeepsRows
  <2>3. CASE c.op = "adjust"
    <3>1. stockPage' = [stockPage EXCEPT !.rows = ReplaceRow(@, c.found[1]), !.busy = @ \ {"adjust"},
                                         !.adjust = NoGood, !.quantity = 0]
      BY <1>13, <2>3 DEF StockAnswered
    <3>2. PICK new : new = c.found[1]
      OBVIOUS
    <3> QED
      BY <2>1, <3>1, <3>2, ReplacingKeepsRows DEF RowsInv, StockPageFields
  <2>4. CASE c.op = "add item"
    <3>1. stockPage' = [stockPage EXCEPT !.rows = Append(@, c.found[1]), !.busy = @ \ {"item"},
                          !.pick = NoGood, !.dialog = IF @ = "item" THEN "none" ELSE @]
      BY <1>13, <2>4 DEF StockAnswered
    <3>2. /\ StockPageFields(stockPage') /\ stockPage'.rows = Append(stockPage.rows, c.found[1])
          /\ stockPage'.arrived = stockPage.arrived /\ stockPage'.products = stockPage.products
          /\ stockPage'.pick = NoGood
      BY <3>1 DEF RowsInv, StockPageFields
    <3> QED
      BY <2>1, <2>4, <3>2, AppendingKeepsRows DEF NewRow
  <2>5. CASE c.op \notin FirstLists \cup {"adjust", "add item"}
    <3>1. \/ stockPage' = stockPage
          \/ stockPage' = [stockPage EXCEPT !.depots = Append(@, c.of), !.busy = @ \ {"depot"},
                              !.dialog = IF @ = "depot" THEN "none" ELSE @]
      BY <1>13, <2>5 DEF StockAnswered, FirstLists
    <3> QED
      BY <2>1, <3>1, TableUntouched DEF RowsInv, StockPageFields
  <2> QED
    BY <2>2, <2>3, <2>4, <2>5
<1>14. ASSUME NEW c \in stockCalls, StockFails(c) PROVE RowsInv'
  <2>1. stock' = stock /\ stockCalls' = stockCalls \ {c}
    BY <1>14 DEF StockFails
  <2>2. CASE c.op \in FirstLists
    <3>1. PICK a : a = [c EXCEPT !.step = "failed", !.found = <<>>]
      OBVIOUS
    <3>2. a.op = c.op /\ a.step = "failed"
      BY <3>1 DEF StockInv, WellMade
    <3>3. stockPage' = Settle([stockPage EXCEPT !.arrived = @ \cup {a}])
      BY <1>14, <2>2, <3>1 DEF StockFails, FirstLists
    <3> QED
      BY <2>1, <2>2, <3>2, <3>3, ArrivingKeepsRows
  <2>3. CASE c.op \notin FirstLists
    <3>1. \/ stockPage' = stockPage
          \/ \E busy : stockPage' = [stockPage EXCEPT !.busy = busy]
      BY <1>14, <2>3 DEF StockFails, FirstLists
    <3> QED
      BY <2>1, <3>1, TableUntouched DEF RowsInv, StockPageFields
  <2> QED
    BY <2>2, <2>3
<1>15. CASE UNCHANGED stockVars
  BY <1>15, TableUntouched DEF stockVars, RowsInv
<1> QED
  BY <1>1, <1>2, <1>3, <1>5, <1>6, <1>7, <1>8, <1>9, <1>10, <1>11, <1>12, <1>13, <1>14, <1>15
  DEF StockNext

\* For any goods: whichever lists, additions and adjustments are answered or
\* fail, in whichever order, the table has one row for an item.
THEOREM ItemsHaveOneRow == BackOfficeSpec => []OneRowPerItem
<1>1. RowsInv => OneRowPerItem
  BY DEF RowsInv, TableFits, OneRowEach, OneRowPerItem
<1>2. BackOfficeInit => StockInv /\ RowsInv
  BY StockInitInv, RowsInitInv DEF BackOfficeInit
<1>3. StockInv /\ RowsInv /\ [BackOfficeNext]_backOfficeVars => (StockInv /\ RowsInv)'
  BY DeskSteps, StockStepInv, RowsStepInv
<1> QED
  BY <1>1, <1>2, <1>3, PTL DEF BackOfficeSpec

-----------------------------------------------------------------------------
(***************************************************************************)
(* Products: whatever can become a saved product, in the list, in an       *)
(* answer, in the form or in a request, only has images that exist, and    *)
(* images are never taken away again.                                      *)
(***************************************************************************)

\* A product, or a form without its ids.
ProductFields(f) ==
    f = [text |-> f.text, slug |-> f.slug, specs |-> f.specs, variants |-> f.variants,
         order |-> f.order, images |-> f.images]
ProductFits(f, media) ==
    ProductFields(f) /\ f.images \subseteq media /\ (f # NoProduct => f.text # "none")
ListFits(rows, media) ==
    /\ rows = [p \in ProductIds |-> rows[p]]
    /\ \A p \in ProductIds : ProductFits(rows[p], media)

\* A form may also show images that have no path yet.
FormFits(f, media) ==
    /\ ProductFields(f) /\ f.text # "none"
    /\ \A q \in f.images : q.stored => q.file \in media

\* A save that runs.
SaveFits(s, media) ==
    \/ s = Quiet
    \/ /\ s = [step |-> s.step, here |-> s.here, page |-> s.page, id |-> s.id, data |-> s.data]
       /\ ProductFits(s.data, media) /\ s.data.text # "none"

DeskFields(d) ==
    d = [store |-> d.store, twice |-> d.twice, fetch |-> d.fetch, page |-> d.page,
         loading |-> d.loading, tab |-> d.tab, form |-> d.form, uploads |-> d.uploads,
         save |-> d.save, delete |-> d.delete, saved |-> d.saved, leaving |-> d.leaving,
         calm |-> d.calm]
DeskFits(d, media) ==
    /\ DeskFields(d)
    /\ d.page.at = "edit" => d.page.id \in ProductIds
    /\ ListFits(d.store, media)
    /\ d.fetch.step = "read" => ListFits(d.fetch.rows, media)
    /\ FormFits(d.form, media) /\ SaveFits(d.save, media)

ImagesInv == ListFits(pdServer, pdMedia) /\ DeskFits(pdDesk, pdMedia)

LEMMA NoProductFits == ASSUME NEW media PROVE ProductFits(NoProduct, media) /\ FormFits(BlankForm, media)
<1>1. NoProduct.images = {} /\ ProductFields(NoProduct)
  BY DEF NoProduct, ProductFields
<1>a. BlankForm = [text |-> "blank", slug |-> "auto", specs |-> <<>>, variants |-> <<>>,
                   order |-> DefaultOrder, images |-> {}]
  BY DEF NoProduct, BlankForm
<1>2. BlankForm.images = {} /\ ProductFields(BlankForm) /\ BlankForm.text # "none"
  BY <1>a DEF ProductFields
<1> QED
  BY <1>1, <1>2 DEF ProductFits, FormFits

\* More images only make more fit.
LEMMA MoreMedia ==
  ASSUME NEW media, NEW more, media \subseteq more
  PROVE  /\ \A rows : ListFits(rows, media) => ListFits(rows, more)
         /\ \A d : DeskFits(d, media) => DeskFits(d, more)
<1>1. \A f : /\ ProductFits(f, media) => ProductFits(f, more)
             /\ FormFits(f, media) => FormFits(f, more)
  BY DEF ProductFits, FormFits
<1>2. \A rows : ListFits(rows, media) => ListFits(rows, more)
  BY <1>1 DEF ListFits
<1>3. \A s : SaveFits(s, media) => SaveFits(s, more)
  BY <1>1 DEF SaveFits
<1> QED
  BY <1>1, <1>2, <1>3 DEF DeskFits

\* The edit form filled from the list.
LEMMA RefilledFits ==
  ASSUME NEW media, NEW d, DeskFits(d, media) PROVE DeskFits(Refilled(d), media)
<1>1. CASE d.page.at # "edit" \/ d.store[d.page.id] = NoProduct
  BY <1>1 DEF Refilled
<1>2. CASE ~(d.page.at # "edit" \/ d.store[d.page.id] = NoProduct)
  <2> DEFINE p == d.store[d.page.id]
             f == d.form
             specs == IF p.specs = <<>> THEN f.specs ELSE p.specs
             variants == IF p.variants = <<>> THEN f.variants ELSE p.variants
             images == IF p.images = {} THEN f.images ELSE {Pic(i, TRUE) : i \in p.images}
             new == [text |-> p.text, slug |-> p.slug, specs |-> specs, variants |-> variants,
                     order |-> p.order, images |-> images]
  <2>1. p.images \subseteq media /\ ProductFields(f)
    BY <1>2 DEF DeskFits, ListFits, ProductFits, FormFits
  <2>2. \A q \in images : q.stored => q.file \in media
    BY <2>1 DEF Pic, DeskFits, FormFits
  <2> DEFINE e == Refilled(d)
  <2>3. e = [d EXCEPT !.loading = FALSE, !.form.text = p.text,
                       !.form.slug = p.slug, !.form.order = p.order,
                       !.form.specs = specs, !.form.variants = variants,
                       !.form.images = images]
    BY <1>2, Zenon DEF Refilled
  <2>4. DeskFields(d)
    BY DEF DeskFits
  <2> HIDE DEF p, specs, variants, images, e
  <2>5. e = [d EXCEPT !.loading = FALSE, !.form = new]
    <3>1. f = [text |-> f.text, slug |-> f.slug, specs |-> f.specs, variants |-> f.variants,
               order |-> f.order, images |-> f.images]
      BY <2>1 DEF ProductFields
    <3>2. PICK g : g = [f EXCEPT !.text = p.text, !.slug = p.slug, !.order = p.order,
                                 !.specs = specs, !.variants = variants, !.images = images]
      OBVIOUS
    <3>3. g = new
      BY <3>1, <3>2
    <3>4. e = [d EXCEPT !.loading = FALSE, !.form = g]
      BY <2>3, <2>4, <3>2 DEF DeskFields
    <3> QED
      BY <3>3, <3>4
  <2>a. p.text # "none"
    BY <1>2 DEF DeskFits, ListFits, ProductFits, p
  <2>6. FormFits(new, media)
    BY <2>2, <2>a DEF FormFits, ProductFields
  <2> HIDE DEF new
  <2>7. /\ DeskFields(e) /\ e.page = d.page /\ e.store = d.store /\ e.fetch = d.fetch
        /\ e.form = new /\ e.save = d.save
    BY <2>4, <2>5 DEF DeskFields
  <2>8. DeskFits(e, media)
    BY <2>6, <2>7 DEF DeskFits
  <2> QED
    BY <2>8 DEF e
<1> QED
  BY <1>1, <1>2

\* Asking for the list, and opening a page.
LEMMA OpenedFits ==
  ASSUME NEW media, NEW d, DeskFits(d, media)
  PROVE  /\ DeskFits(FetchProducts(d), media)
         /\ \A page : (page.at = "edit" => page.id \in ProductIds) => DeskFits(Opened(d, page), media)
<1>1. DeskFits(FetchProducts(d), media)
  <2> DEFINE e == FetchProducts(d)
             fetch == IF d.fetch = Quiet THEN [step |-> "asked"] ELSE d.fetch
  <2>1. e = [d EXCEPT !.fetch = fetch]
    BY DEF FetchProducts
  <2>2. fetch.step = "read" => fetch = d.fetch
    OBVIOUS
  <2> HIDE DEF e, fetch
  <2>3. /\ DeskFields(e) /\ e.page = d.page /\ e.store = d.store /\ e.fetch = fetch
        /\ e.form = d.form /\ e.save = d.save
    BY <2>1 DEF DeskFields, DeskFits
  <2>4. DeskFits(e, media)
    BY <2>2, <2>3 DEF DeskFits
  <2> QED
    BY <2>4 DEF e
<1>2. ASSUME NEW page, page.at = "edit" => page.id \in ProductIds
      PROVE  DeskFits(Opened(d, page), media)
  <2> DEFINE e == Opened(d, page)
             save == [d.save EXCEPT !.here = FALSE]
  <2>1. SaveFits(save, media)
    <3>1. CASE d.save = Quiet
      <4>1. PICK s : s = [Quiet EXCEPT !.here = FALSE]
        OBVIOUS
      <4>2. s = Quiet
        BY <4>1 DEF Quiet
      <4> QED
        BY <3>1, <4>1, <4>2 DEF SaveFits
    <3>2. CASE d.save # Quiet
      <4>1. /\ d.save = [step |-> d.save.step, here |-> d.save.here, page |-> d.save.page,
                         id |-> d.save.id, data |-> d.save.data]
            /\ ProductFits(d.save.data, media) /\ d.save.data.text # "none"
        BY <3>2 DEF DeskFits, SaveFits
      <4>a. PICK s : s = d.save
        OBVIOUS
      <4>b. s = [step |-> s.step, here |-> s.here, page |-> s.page, id |-> s.id, data |-> s.data]
        BY <4>1, <4>a
      <4>c. PICK t : t = [s EXCEPT !.here = FALSE]
        OBVIOUS
      <4>d. t = [step |-> s.step, here |-> FALSE, page |-> s.page, id |-> s.id, data |-> s.data]
        BY <4>b, <4>c
      <4>2. /\ save = [step |-> save.step, here |-> save.here, page |-> save.page,
                       id |-> save.id, data |-> save.data]
            /\ save.data = d.save.data
        BY <4>a, <4>c, <4>d
      <4> QED
        BY <4>1, <4>2 DEF SaveFits
    <3> QED
      BY <3>1, <3>2
  <2> HIDE DEF save
  <2>2. e = [d EXCEPT !.page = page, !.form = BlankForm, !.uploads = {}, !.tab = "edit",
                      !.saved = FALSE, !.save = save]
    BY DEF Opened, save, DeskFits, DeskFields
  <2> HIDE DEF e
  <2>3. /\ DeskFields(e) /\ e.page = page /\ e.store = d.store /\ e.fetch = d.fetch
        /\ e.form = BlankForm /\ e.save = save
    BY <2>2 DEF DeskFields, DeskFits
  <2>4. DeskFits(e, media)
    BY <1>2, <2>1, <2>3, NoProductFits DEF DeskFits
  <2> QED
    BY <2>4 DEF e
<1> QED
  BY <1>1, <1>2

\* The inputs of the form that are not its images.
LEMMA PlainInputFits ==
  ASSUME NEW media, NEW f, FormFits(f, media), NEW v, NEW g,
         \/ g = [f EXCEPT !.text = v] /\ v # "none"
         \/ g = [f EXCEPT !.slug = v]
         \/ g = [f EXCEPT !.order = v]
         \/ g = [f EXCEPT !.specs = v]
         \/ g = [f EXCEPT !.variants = v]
  PROVE  FormFits(g, media)
<1>1. f = [text |-> f.text, slug |-> f.slug, specs |-> f.specs, variants |-> f.variants,
           order |-> f.order, images |-> f.images]
  BY DEF FormFits, ProductFields
<1>2. /\ g = [text |-> g.text, slug |-> g.slug, specs |-> g.specs, variants |-> g.variants,
              order |-> g.order, images |-> g.images]
      /\ g.images = f.images
  BY <1>1
<1>3. g.text = f.text \/ g.text # "none"
  BY <1>1
<1> QED
  BY <1>2, <1>3 DEF FormFits, ProductFields

LEMMA ImagesInitInv == ProductDeskInit => ImagesInv
<1> SUFFICES ASSUME ProductDeskInit PROVE ImagesInv
  OBVIOUS
<1>1. PICK first : first = [NoProduct EXCEPT !.text = "first"]
  OBVIOUS
<1>a. first = [text |-> "first", slug |-> "auto", specs |-> <<>>, variants |-> <<>>,
               order |-> DefaultOrder, images |-> {}]
  BY <1>1 DEF NoProduct
<1>2. ProductFits(first, pdMedia)
  BY <1>a DEF ProductFits, ProductFields
<1>3. pdServer = [p \in ProductIds |-> IF p \in StartIds THEN first ELSE NoProduct]
  BY <1>1 DEF ProductDeskInit
<1>4. ListFits(pdServer, pdMedia)
  BY <1>2, <1>3, NoProductFits DEF ListFits
<1>5. /\ DeskFields(pdDesk) /\ pdDesk.store = pdServer /\ pdDesk.fetch = Quiet
      /\ pdDesk.page = OnList /\ pdDesk.form = BlankForm /\ pdDesk.save = Quiet
  BY DEF ProductDeskInit, DeskFields
<1>6. DeskFits(pdDesk, pdMedia)
  BY <1>4, <1>5, NoProductFits DEF DeskFits, SaveFits, Quiet, OnList
<1> QED
  BY <1>4, <1>6 DEF ImagesInv

\* A step that at most edits the form, or adds images to the media.
LEMMA EditingKeepsImages ==
  ASSUME ImagesInv, pdServer' = pdServer, pdMedia \subseteq pdMedia', DeskFields(pdDesk'),
         pdDesk'.page = pdDesk.page, pdDesk'.store = pdDesk.store, pdDesk'.fetch = pdDesk.fetch,
         pdDesk'.save = pdDesk.save,
         pdDesk'.form = pdDesk.form \/ FormFits(pdDesk'.form, pdMedia')
  PROVE  ImagesInv'
<1>1. ListFits(pdServer, pdMedia') /\ DeskFits(pdDesk, pdMedia')
  BY MoreMedia DEF ImagesInv
<1> QED
  BY <1>1 DEF ImagesInv, DeskFits

LEMMA InputsKeepImages ==
  ASSUME ImagesInv, pdServer' = pdServer, pdMedia' = pdMedia, NEW v,
         \/ pdDesk' = [pdDesk EXCEPT !.form.text = v] /\ v # "none"
         \/ pdDesk' = [pdDesk EXCEPT !.form.slug = v]
         \/ pdDesk' = [pdDesk EXCEPT !.form.order = v]
  PROVE  ImagesInv'
<1> DEFINE f == pdDesk.form
<1>1. DeskFields(pdDesk) /\ FormFits(f, pdMedia)
  BY DEF ImagesInv, DeskFits
<1>2. PICK g : /\ pdDesk' = [pdDesk EXCEPT !.form = g]
               /\ \/ g = [f EXCEPT !.text = v] /\ v # "none"
                  \/ g = [f EXCEPT !.slug = v]
                  \/ g = [f EXCEPT !.order = v]
  BY <1>1 DEF DeskFields
<1>3. FormFits(g, pdMedia)
  BY <1>1, <1>2, PlainInputFits
<1>4. /\ DeskFields(pdDesk') /\ pdDesk'.page = pdDesk.page /\ pdDesk'.store = pdDesk.store
      /\ pdDesk'.fetch = pdDesk.fetch /\ pdDesk'.save = pdDesk.save /\ pdDesk'.form = g
  BY <1>1, <1>2 DEF DeskFields
<1> QED
  BY <1>3, <1>4, EditingKeepsImages

LEMMA RowsKeepImages ==
  ASSUME ImagesInv, NEW list, NEW rows, EditList(list, rows)
  PROVE  ImagesInv'
<1> DEFINE f == pdDesk.form
<1>1. DeskFields(pdDesk) /\ FormFits(f, pdMedia)
  BY DEF ImagesInv, DeskFits
<1>2. PICK g : /\ pdDesk' = [pdDesk EXCEPT !.form = g]
               /\ g = [f EXCEPT !.specs = rows] \/ g = [f EXCEPT !.variants = rows]
  BY DEF EditList, WithList
<1>3. FormFits(g, pdMedia)
  BY <1>1, <1>2, PlainInputFits
<1>4. /\ DeskFields(pdDesk') /\ pdDesk'.page = pdDesk.page /\ pdDesk'.store = pdDesk.store
      /\ pdDesk'.fetch = pdDesk.fetch /\ pdDesk'.save = pdDesk.save /\ pdDesk'.form = g
  BY <1>1, <1>2 DEF DeskFields
<1>5. pdServer' = pdServer /\ pdMedia' = pdMedia
  BY DEF EditList
<1> QED
  BY <1>3, <1>4, <1>5, EditingKeepsImages

\* What is done to the images of the form: an image has a path when it exists.
LEMMA ImagesOfFormFit ==
  ASSUME ImagesInv, pdServer' = pdServer, pdMedia \subseteq pdMedia', NEW images, NEW uploads, NEW calm,
         pdDesk' = [pdDesk EXCEPT !.form.images = images, !.uploads = uploads, !.calm = calm],
         \A q \in images : q.stored => q \in pdDesk.form.images \/ q.file \in pdMedia'
  PROVE  ImagesInv'
<1> DEFINE f == pdDesk.form
<1>1. DeskFields(pdDesk) /\ FormFits(f, pdMedia)
  BY DEF ImagesInv, DeskFits
<1>2. PICK g : g = [f EXCEPT !.images = images]
  OBVIOUS
<1>3. f = [text |-> f.text, slug |-> f.slug, specs |-> f.specs, variants |-> f.variants,
           order |-> f.order, images |-> f.images]
  BY <1>1 DEF FormFits, ProductFields
<1>4. /\ g = [text |-> g.text, slug |-> g.slug, specs |-> g.specs, variants |-> g.variants,
              order |-> g.order, images |-> g.images]
      /\ g.images = images /\ g.text = f.text
  BY <1>2, <1>3
<1>5. FormFits(g, pdMedia')
  BY <1>1, <1>4 DEF FormFits, ProductFields
<1>6. pdDesk' = [pdDesk EXCEPT !.form = g, !.uploads = uploads, !.calm = calm]
  BY <1>1, <1>2 DEF DeskFields
<1>7. /\ DeskFields(pdDesk') /\ pdDesk'.page = pdDesk.page /\ pdDesk'.store = pdDesk.store
      /\ pdDesk'.fetch = pdDesk.fetch /\ pdDesk'.save = pdDesk.save /\ pdDesk'.form = g
  BY <1>1, <1>6 DEF DeskFields
<1> QED
  BY <1>5, <1>7, EditingKeepsImages

LEMMA FilesKeepImages ==
  ASSUME ImagesInv
  PROVE  /\ \A files : HandleFilesAdded(files) => ImagesInv'
         /\ \A files, stored, ok : FilesUploaded(files, stored, ok) => ImagesInv'
         /\ \A p : HandleFileRemoved(p) => ImagesInv'
         /\ \A i : AddImageByUrl(i) => ImagesInv'
<1> DEFINE old == pdDesk.form.images
<1>0. DeskFields(pdDesk) /\ ProductFields(pdDesk.form)
  BY DEF ImagesInv, DeskFits, FormFits
<1>1. ASSUME NEW files, HandleFilesAdded(files) PROVE ImagesInv'
  <2> DEFINE images == old \cup {Pic(i, FALSE) : i \in files}
             uploads == pdDesk.uploads \cup {files}
  <2>1. /\ pdDesk' = [pdDesk EXCEPT !.form.images = images, !.uploads = uploads, !.calm = pdDesk.calm]
        /\ pdServer' = pdServer /\ pdMedia' = pdMedia
    BY <1>0, <1>1 DEF HandleFilesAdded, DeskFields
  <2>2. \A q \in images : q.stored => q \in old
    BY DEF Pic
  <2> HIDE DEF images, uploads
  <2> QED
    BY <2>1, <2>2, ImagesOfFormFit
<1>2. ASSUME NEW files, NEW stored, NEW ok, FilesUploaded(files, stored, ok) PROVE ImagesInv'
  <2> DEFINE waiting == {p \in old : p.file \in files /\ ~p.stored}
             images == IF ok THEN (old \ waiting) \cup {Pic(p.file, TRUE) : p \in waiting}
                       ELSE old \ waiting
             uploads == pdDesk.uploads \ {files}
             calm == pdDesk.calm /\ ok
  <2>1. /\ pdDesk' = [pdDesk EXCEPT !.form.images = images, !.uploads = uploads, !.calm = calm]
        /\ pdServer' = pdServer
    BY <1>0, <1>2 DEF FilesUploaded, DeskFields
  <2>2. pdMedia \subseteq pdMedia' /\ (ok => files \subseteq pdMedia')
    BY <1>2 DEF FilesUploaded, StoreFiles
  <2>3. \A q \in images : q.stored => q \in old \/ q.file \in pdMedia'
    BY <2>2 DEF Pic
  <2> HIDE DEF images, uploads, calm
  <2> QED
    BY <2>1, <2>2, <2>3, ImagesOfFormFit
<1>3. ASSUME NEW p, HandleFileRemoved(p) PROVE ImagesInv'
  <2> DEFINE images == old \ {p}
  <2>1. /\ pdDesk' = [pdDesk EXCEPT !.form.images = images, !.uploads = pdDesk.uploads, !.calm = pdDesk.calm]
        /\ pdServer' = pdServer /\ pdMedia' = pdMedia
    BY <1>0, <1>3 DEF HandleFileRemoved, DeskFields
  <2>2. \A q \in images : q \in old
    OBVIOUS
  <2> HIDE DEF images
  <2> QED
    BY <2>1, <2>2, ImagesOfFormFit
<1>4. ASSUME NEW i, AddImageByUrl(i) PROVE ImagesInv'
  <2> DEFINE images == old \cup {Pic(i, TRUE)}
  <2>1. /\ pdDesk' = [pdDesk EXCEPT !.form.images = images, !.uploads = pdDesk.uploads, !.calm = pdDesk.calm]
        /\ pdServer' = pdServer /\ pdMedia' = pdMedia \cup {i}
    BY <1>0, <1>4 DEF AddImageByUrl, DeskFields
  <2>2. \A q \in images : q \in old \/ q.file \in pdMedia'
    BY <2>1 DEF Pic
  <2> HIDE DEF images
  <2> QED
    BY <2>1, <2>2, ImagesOfFormFit
<1> QED
  BY <1>1, <1>2, <1>3, <1>4

\* What a step keeps that leaves the page, the lists, the form and the save alone.
LEMMA DeskUntouched ==
  ASSUME ImagesInv, pdServer' = pdServer, pdMedia' = pdMedia, DeskFields(pdDesk'),
         pdDesk'.page = pdDesk.page, pdDesk'.store = pdDesk.store, pdDesk'.fetch = pdDesk.fetch,
         pdDesk'.save = pdDesk.save, pdDesk'.form = pdDesk.form
  PROVE  ImagesInv'
BY DEF ImagesInv, DeskFits

\* The list is read, and merged into the one of the store.
LEMMA ReadingKeepsImages ==
  ASSUME ImagesInv
  PROVE  /\ \A ok : ProductsRead(ok) => ImagesInv'
         /\ ProductsArrive => ImagesInv'
<1>0. DeskFields(pdDesk) /\ DeskFits(pdDesk, pdMedia) /\ ListFits(pdServer, pdMedia)
  BY DEF ImagesInv, DeskFits
<1>1. ASSUME NEW ok, ProductsRead(ok) PROVE ImagesInv'
  <2> DEFINE rows == IF ok THEN pdServer ELSE [p \in ProductIds |-> NoProduct]
             calm == pdDesk.calm /\ ok /\ pdDesk.save = Quiet /\ pdDesk.delete = Quiet
             read == [step |-> "read", rows |-> rows]
  <2>1. ListFits(rows, pdMedia)
    BY <1>0, NoProductFits DEF ListFits
  <2>2. /\ pdDesk' = [pdDesk EXCEPT !.fetch = read, !.calm = calm]
        /\ pdServer' = pdServer /\ pdMedia' = pdMedia
    BY <1>0, <1>1 DEF ProductsRead, DeskFields
  <2>3. read.rows = rows
    OBVIOUS
  <2> HIDE DEF rows, calm, read
  <2>4. /\ DeskFields(pdDesk') /\ pdDesk'.page = pdDesk.page /\ pdDesk'.store = pdDesk.store
        /\ pdDesk'.fetch = read /\ pdDesk'.form = pdDesk.form /\ pdDesk'.save = pdDesk.save
    BY <1>0, <2>2 DEF DeskFields
  <2> QED
    BY <1>0, <2>1, <2>2, <2>3, <2>4 DEF ImagesInv, DeskFits
<1>2. ASSUME ProductsArrive PROVE ImagesInv'
  <2> DEFINE rows == pdDesk.fetch.rows
             twice == pdDesk.twice \ Stored(rows)
             store == [p \in ProductIds |-> IF rows[p] # NoProduct THEN rows[p] ELSE pdDesk.store[p]]
  <2>1. PICK d, e : /\ d = [pdDesk EXCEPT !.fetch = Quiet, !.twice = twice, !.store = store]
                    /\ e = [pdDesk EXCEPT !.fetch = Quiet]
    OBVIOUS
  <2>2. pdDesk' = e \/ pdDesk' = Refilled(d)
    BY <1>0, <1>2, <2>1 DEF ProductsArrive, DeskFields
  <2>3. ListFits(store, pdMedia)
    BY <1>0, <1>2 DEF ProductsArrive, DeskFits, ListFits
  <2> HIDE DEF twice, store
  <2>4. Quiet.step # "read"
    BY DEF Quiet
  <2>5. /\ DeskFields(e) /\ e.page = pdDesk.page /\ e.store = pdDesk.store /\ e.fetch = Quiet
        /\ e.form = pdDesk.form /\ e.save = pdDesk.save
    BY <1>0, <2>1 DEF DeskFields
  <2>6. /\ DeskFields(d) /\ d.page = pdDesk.page /\ d.store = store /\ d.fetch = Quiet
        /\ d.form = pdDesk.form /\ d.save = pdDesk.save
    BY <1>0, <2>1 DEF DeskFields
  <2>7. DeskFits(e, pdMedia) /\ DeskFits(d, pdMedia)
    BY <1>0, <2>3, <2>4, <2>5, <2>6 DEF DeskFits
  <2>8. DeskFits(pdDesk', pdMedia)
    BY <2>2, <2>7, RefilledFits
  <2>9. pdServer' = pdServer /\ pdMedia' = pdMedia
    BY <1>2 DEF ProductsArrive
  <2> QED
    BY <1>0, <2>8, <2>9 DEF ImagesInv
<1> QED
  BY <1>1, <1>2

\* The pages are opened.
LEMMA OpeningKeepsImages ==
  ASSUME ImagesInv
  PROVE  /\ OpenList => ImagesInv'
         /\ OpenNewProduct => ImagesInv'
         /\ \A p \in ProductIds : OpenEditProduct(p) => ImagesInv'
         /\ BackToList => ImagesInv'
<1>0. DeskFields(pdDesk) /\ DeskFits(pdDesk, pdMedia) /\ ListFits(pdServer, pdMedia)
  BY DEF ImagesInv, DeskFits
<1>1. SUFFICES ASSUME OpenList \/ OpenNewProduct \/ BackToList \/ \E p \in ProductIds : OpenEditProduct(p)
               PROVE  DeskFits(pdDesk', pdMedia) /\ pdServer' = pdServer /\ pdMedia' = pdMedia
  BY <1>0 DEF ImagesInv
<1>2. pdServer' = pdServer /\ pdMedia' = pdMedia
  BY <1>1 DEF OpenList, OpenNewProduct, OpenEditProduct, BackToList
<1>3. OnList.at # "edit"
  BY DEF OnList
<1>4. CASE OpenList
  BY <1>0, <1>2, <1>3, <1>4, OpenedFits DEF OpenList
<1>5. CASE OpenNewProduct
  <2>1. PICK page : page = [at |-> "new", id |-> "none"]
    OBVIOUS
  <2>2. PICK d : d = Opened(pdDesk, page)
    OBVIOUS
  <2>3. DeskFits(d, pdMedia)
    BY <1>0, <2>1, <2>2, OpenedFits
  <2>4. pdDesk' = [d EXCEPT !.loading = FALSE]
    BY <1>5, <2>1, <2>2 DEF OpenNewProduct
  <2>5. /\ DeskFields(pdDesk') /\ pdDesk'.page = d.page /\ pdDesk'.store = d.store
        /\ pdDesk'.fetch = d.fetch /\ pdDesk'.form = d.form /\ pdDesk'.save = d.save
    BY <2>3, <2>4 DEF DeskFields, DeskFits
  <2> QED
    BY <1>2, <2>3, <2>5 DEF DeskFits
<1>6. CASE \E p \in ProductIds : OpenEditProduct(p)
  <2>1. PICK p \in ProductIds : OpenEditProduct(p)
    BY <1>6
  <2>2. PICK page, c : page = [at |-> "edit", id |-> p] /\ c = [pdDesk EXCEPT !.loading = TRUE]
    OBVIOUS
  <2>3. /\ DeskFields(c) /\ c.page = pdDesk.page /\ c.store = pdDesk.store
        /\ c.fetch = pdDesk.fetch /\ c.form = pdDesk.form /\ c.save = pdDesk.save
    BY <1>0, <2>2 DEF DeskFields
  <2>4. DeskFits(c, pdMedia)
    BY <1>0, <2>3 DEF DeskFits
  <2>5. DeskFits(Opened(c, page), pdMedia)
    BY <2>2, <2>4, OpenedFits
  <2>6. DeskFits(FetchProducts(Refilled(Opened(c, page))), pdMedia)
    BY <2>5, RefilledFits, OpenedFits
  <2>7. pdDesk' = FetchProducts(Refilled(Opened(c, page)))
    BY <2>1, <2>2 DEF OpenEditProduct
  <2> QED
    BY <1>2, <2>6, <2>7
<1>7. CASE BackToList
  <2>1. PICK c : c = [pdDesk EXCEPT !.leaving = FALSE]
    OBVIOUS
  <2>2. /\ DeskFields(c) /\ c.page = pdDesk.page /\ c.store = pdDesk.store
        /\ c.fetch = pdDesk.fetch /\ c.form = pdDesk.form /\ c.save = pdDesk.save
    BY <1>0, <2>1 DEF DeskFields
  <2>3. DeskFits(c, pdMedia)
    BY <1>0, <2>2 DEF DeskFits
  <2>4. DeskFits(FetchProducts(Opened(c, OnList)), pdMedia)
    BY <1>3, <2>3, OpenedFits
  <2>5. pdDesk' = FetchProducts(Opened(c, OnList))
    BY <1>7, <2>1 DEF BackToList
  <2> QED
    BY <1>2, <2>4, <2>5
<1> QED
  BY <1>1, <1>4, <1>5, <1>6, <1>7

\* A step that only moves the save, to one that fits.
LEMMA MovingTheSaveFits ==
  ASSUME ImagesInv, NEW save, SaveFits(save, pdMedia), NEW calm,
         pdDesk' = [pdDesk EXCEPT !.save = save, !.calm = calm],
         ListFits(pdServer', pdMedia), pdMedia' = pdMedia
  PROVE  ImagesInv'
<1>1. DeskFields(pdDesk) /\ DeskFits(pdDesk, pdMedia)
  BY DEF ImagesInv, DeskFits
<1>2. /\ DeskFields(pdDesk') /\ pdDesk'.page = pdDesk.page /\ pdDesk'.store = pdDesk.store
      /\ pdDesk'.fetch = pdDesk.fetch /\ pdDesk'.form = pdDesk.form /\ pdDesk'.save = save
  BY <1>1 DEF DeskFields
<1> QED
  BY <1>1, <1>2 DEF ImagesInv, DeskFits

\* A save that runs carries a product that fits.
LEMMA RunningSave ==
  ASSUME ImagesInv, pdDesk.save.step # "none"
  PROVE  LET s == pdDesk.save
         IN  /\ s = [step |-> s.step, here |-> s.here, page |-> s.page, id |-> s.id, data |-> s.data]
             /\ ProductFits(s.data, pdMedia) /\ s.data.text # "none"
BY DEF ImagesInv, DeskFits, SaveFits, Quiet

\* A save is sent, served, answered or fails.
LEMMA SavingKeepsImages ==
  ASSUME ImagesInv
  PROVE  /\ HandleSubmitProduct => ImagesInv'
         /\ \A p \in ProductIds : ProductSaved(p) => ImagesInv'
         /\ SaveAnswered => ImagesInv'
         /\ SaveProductFails => ImagesInv'
<1>0. DeskFields(pdDesk) /\ DeskFits(pdDesk, pdMedia) /\ ListFits(pdServer, pdMedia)
  BY DEF ImagesInv, DeskFits
<1>1. ASSUME HandleSubmitProduct PROVE ImagesInv'
  <2> DEFINE save == [step |-> "sent", here |-> TRUE, page |-> pdDesk.page, id |-> "none", data |-> Payload]
             calm == pdDesk.calm /\ pdDesk.fetch = Quiet
  <2>1. /\ ProductFields(Payload) /\ Payload.images = Paths(pdDesk.form)
        /\ Payload.text = pdDesk.form.text
    BY DEF Payload, ProductFields
  <2>2. Paths(pdDesk.form) \subseteq pdMedia
    BY <1>0 DEF Paths, DeskFits, FormFits
  <2>3. ProductFits(Payload, pdMedia) /\ Payload.text # "none"
    BY <1>0, <2>1, <2>2 DEF ProductFits, DeskFits, FormFits
  <2>a. PICK data : data = Payload
    OBVIOUS
  <2>4. SaveFits(save, pdMedia)
    BY <2>3, <2>a DEF SaveFits
  <2>5. /\ pdDesk' = [pdDesk EXCEPT !.save = save, !.calm = calm]
        /\ pdServer' = pdServer /\ pdMedia' = pdMedia
    BY <1>0, <1>1 DEF HandleSubmitProduct, DeskFields
  <2> HIDE DEF save, calm
  <2> QED
    BY <1>0, <2>4, <2>5, MovingTheSaveFits
<1>2. ASSUME NEW p \in ProductIds, ProductSaved(p) PROVE ImagesInv'
  <2> DEFINE s == pdDesk.save
             kept == IF s.page.at = "new" THEN s.data.slug ELSE pdServer[p].slug
  <2>1. s.step = "sent"
    BY <1>2 DEF ProductSaved
  <2>2. /\ s = [step |-> s.step, here |-> s.here, page |-> s.page, id |-> s.id, data |-> s.data]
        /\ ProductFits(s.data, pdMedia) /\ s.data.text # "none"
    BY <2>1, RunningSave
  <2>3. PICK old, product : old = s.data /\ product = [old EXCEPT !.slug = kept]
    OBVIOUS
  <2>4. /\ pdServer' = [pdServer EXCEPT ![p] = product]
        /\ pdDesk' = [pdDesk EXCEPT !.save.step = "done", !.save.id = p, !.save.data = product]
        /\ pdMedia' = pdMedia
    BY <1>2, <2>3 DEF ProductSaved
  <2>5. old = [text |-> old.text, slug |-> old.slug, specs |-> old.specs, variants |-> old.variants,
               order |-> old.order, images |-> old.images]
    BY <2>2, <2>3 DEF ProductFits, ProductFields
  <2>6. /\ product = [text |-> old.text, slug |-> kept, specs |-> old.specs, variants |-> old.variants,
                      order |-> old.order, images |-> old.images]
    BY <2>3, <2>5
  <2>7. ProductFields(product) /\ product.images = old.images /\ product.text = old.text
    BY <2>6 DEF ProductFields
  <2>8. ProductFits(product, pdMedia) /\ product.text # "none"
    BY <2>2, <2>3, <2>7 DEF ProductFits
  <2>9. ListFits(pdServer', pdMedia)
    BY <1>0, <2>4, <2>8 DEF ListFits
  <2> DEFINE save == [step |-> "done", here |-> s.here, page |-> s.page, id |-> p, data |-> product]
  <2>10. SaveFits(save, pdMedia)
    BY <2>8 DEF SaveFits
  <2>11. PICK t : t = [s EXCEPT !.step = "done", !.id = p, !.data = product]
    OBVIOUS
  <2>12. t = save
    BY <2>2, <2>11
  <2>13. pdDesk' = [pdDesk EXCEPT !.save = t]
    BY <1>0, <2>4, <2>11 DEF DeskFields
  <2>14. pdDesk' = [pdDesk EXCEPT !.save = save, !.calm = pdDesk.calm]
    BY <1>0, <2>12, <2>13 DEF DeskFields
  <2> HIDE DEF save
  <2> QED
    BY <2>4, <2>9, <2>10, <2>14, MovingTheSaveFits
<1>3. ASSUME SaveAnswered PROVE ImagesInv'
  <2> DEFINE s == pdDesk.save
             known == pdDesk.store[s.id] # NoProduct
             saved == pdDesk.saved \/ s.here
             twice == IF s.page.at = "new" /\ known THEN pdDesk.twice \cup {s.id} ELSE pdDesk.twice
             entry == IF s.page.at = "new" \/ known THEN s.data ELSE pdDesk.store[s.id]
             store == [pdDesk.store EXCEPT ![s.id] = entry]
  <2>1. ProductFits(s.data, pdMedia)
    BY <1>3, RunningSave DEF SaveAnswered
  <2>2. ListFits(store, pdMedia)
    BY <1>0, <2>1 DEF DeskFits, ListFits
  <2>3. PICK d : d = [pdDesk EXCEPT !.save = Quiet, !.leaving = TRUE, !.saved = saved,
                                    !.twice = twice, !.store = store]
    OBVIOUS
  <2>4. pdDesk' = Refilled(d)
    BY <1>0, <1>3, <2>3 DEF SaveAnswered, DeskFields
  <2> HIDE DEF saved, twice, store
  <2>5. /\ DeskFields(d) /\ d.page = pdDesk.page /\ d.store = store /\ d.fetch = pdDesk.fetch
        /\ d.form = pdDesk.form /\ d.save = Quiet
    BY <1>0, <2>3 DEF DeskFields
  <2>6. DeskFits(d, pdMedia)
    BY <1>0, <2>2, <2>5 DEF DeskFits, SaveFits
  <2>7. pdServer' = pdServer /\ pdMedia' = pdMedia
    BY <1>3 DEF SaveAnswered
  <2> QED
    BY <1>0, <2>4, <2>6, <2>7, RefilledFits DEF ImagesInv
<1>4. ASSUME SaveProductFails PROVE ImagesInv'
  <2>1. /\ pdDesk' = [pdDesk EXCEPT !.save = Quiet, !.calm = FALSE]
        /\ pdServer' = pdServer /\ pdMedia' = pdMedia /\ SaveFits(Quiet, pdMedia)
    BY <1>4 DEF SaveProductFails, SaveFits
  <2> QED
    BY <1>0, <2>1, MovingTheSaveFits
<1> QED
  BY <1>1, <1>2, <1>3, <1>4

\* A deletion is sent, served, answered or fails.
LEMMA DeletingKeepsImages ==
  ASSUME ImagesInv
  PROVE  /\ \A p \in ProductIds : HandleDeleteProduct(p) => ImagesInv'
         /\ ProductDeleted => ImagesInv'
         /\ DeleteAnswered => ImagesInv'
         /\ DeleteFails => ImagesInv'
<1>0. DeskFields(pdDesk) /\ DeskFits(pdDesk, pdMedia) /\ ListFits(pdServer, pdMedia)
  BY DEF ImagesInv, DeskFits
<1>1. ASSUME NEW p \in ProductIds, HandleDeleteProduct(p) PROVE ImagesInv'
  <2>1. /\ DeskFields(pdDesk') /\ pdDesk'.page = pdDesk.page /\ pdDesk'.store = pdDesk.store
        /\ pdDesk'.fetch = pdDesk.fetch /\ pdDesk'.form = pdDesk.form /\ pdDesk'.save = pdDesk.save
        /\ pdServer' = pdServer /\ pdMedia' = pdMedia
    BY <1>0, <1>1 DEF HandleDeleteProduct, DeskFields
  <2> QED
    BY <2>1, DeskUntouched
<1>2. ASSUME ProductDeleted PROVE ImagesInv'
  <2>1. PICK gone : pdDesk' = [pdDesk EXCEPT !.delete = gone]
    BY <1>0, <1>2 DEF ProductDeleted, DeskFields
  <2>2. /\ DeskFields(pdDesk') /\ pdDesk'.page = pdDesk.page /\ pdDesk'.store = pdDesk.store
        /\ pdDesk'.fetch = pdDesk.fetch /\ pdDesk'.form = pdDesk.form /\ pdDesk'.save = pdDesk.save
    BY <1>0, <2>1 DEF DeskFields
  <2>3. pdServer' = [pdServer EXCEPT ![pdDesk.delete.id] = NoProduct] /\ pdMedia' = pdMedia
    BY <1>2 DEF ProductDeleted
  <2>4. ListFits(pdServer', pdMedia)
    BY <1>0, <2>3, NoProductFits DEF ListFits
  <2> QED
    BY <1>0, <2>2, <2>3, <2>4 DEF ImagesInv, DeskFits
<1>3. ASSUME DeleteAnswered PROVE ImagesInv'
  <2> DEFINE id == pdDesk.delete.id
             store == [pdDesk.store EXCEPT ![id] = NoProduct]
             twice == pdDesk.twice \ {id}
  <2>1. /\ pdDesk' = [pdDesk EXCEPT !.store = store, !.twice = twice, !.delete = Quiet]
        /\ pdServer' = pdServer /\ pdMedia' = pdMedia
    BY <1>0, <1>3 DEF DeleteAnswered, DeskFields
  <2>2. ListFits(store, pdMedia)
    BY <1>0, NoProductFits DEF DeskFits, ListFits
  <2> HIDE DEF store, twice
  <2>3. /\ DeskFields(pdDesk') /\ pdDesk'.page = pdDesk.page /\ pdDesk'.store = store
        /\ pdDesk'.fetch = pdDesk.fetch /\ pdDesk'.form = pdDesk.form /\ pdDesk'.save = pdDesk.save
    BY <1>0, <2>1 DEF DeskFields
  <2> QED
    BY <1>0, <2>1, <2>2, <2>3 DEF ImagesInv, DeskFits
<1>4. ASSUME DeleteFails PROVE ImagesInv'
  <2>1. /\ DeskFields(pdDesk') /\ pdDesk'.page = pdDesk.page /\ pdDesk'.store = pdDesk.store
        /\ pdDesk'.fetch = pdDesk.fetch /\ pdDesk'.form = pdDesk.form /\ pdDesk'.save = pdDesk.save
        /\ pdServer' = pdServer /\ pdMedia' = pdMedia
    BY <1>0, <1>4 DEF DeleteFails, DeskFields
  <2> QED
    BY <2>1, DeskUntouched
<1> QED
  BY <1>1, <1>2, <1>3, <1>4

LEMMA ImagesStepInv == ImagesInv /\ [ProductDeskNext]_productDeskVars => ImagesInv'
<1> SUFFICES ASSUME ImagesInv, [ProductDeskNext]_productDeskVars PROVE ImagesInv'
  OBVIOUS
<1>0. DeskFields(pdDesk)
  BY DEF ImagesInv, DeskFits
<1>1. CASE UNCHANGED productDeskVars
  BY <1>0, <1>1, DeskUntouched DEF productDeskVars
<1>2. CASE \/ \E ok \in BOOLEAN : ProductsRead(ok)
           \/ ProductsArrive \/ OpenList \/ OpenNewProduct \/ BackToList
           \/ \E p \in ProductIds : OpenEditProduct(p)
  BY <1>2, ReadingKeepsImages, OpeningKeepsImages
<1>3. CASE \/ \E p \in ProductIds : ProductSaved(p) \/ HandleDeleteProduct(p)
           \/ HandleSubmitProduct \/ SaveAnswered \/ SaveProductFails
           \/ ProductDeleted \/ DeleteAnswered \/ DeleteFails
  BY <1>3, SavingKeepsImages, DeletingKeepsImages
<1>4. CASE \E slug \in {"auto", "own"} : TypeSlug(slug)
  BY <1>4, InputsKeepImages DEF TypeSlug
<1>5. CASE FillProductForm
  <2>1. PICK text : text = "typed"
    OBVIOUS
  <2>2. text # "none"
    BY <2>1
  <2>3. /\ pdDesk' = [pdDesk EXCEPT !.form.text = text]
        /\ pdServer' = pdServer /\ pdMedia' = pdMedia
    BY <1>5, <2>1 DEF FillProductForm
  <2> QED
    BY <2>2, <2>3, InputsKeepImages
<1>6. CASE \E from, to \in 1..3 : ReorderSections(from, to)
  <2>1. PICK order : pdDesk' = [pdDesk EXCEPT !.form.order = order]
    BY <1>6 DEF ReorderSections
  <2>2. pdServer' = pdServer /\ pdMedia' = pdMedia
    BY <1>6 DEF ReorderSections
  <2> QED
    BY <2>1, <2>2, InputsKeepImages
<1>7. CASE \/ \E list \in RowLists : AddRow(list) \/ \E id \in 1..2 : UpdateRow(list, id) \/ RemoveRow(list, id)
           \/ \E from, to \in 1..2 : ReorderRows(from, to)
  <2>1. \E list, rows : EditList(list, rows)
    BY <1>7 DEF AddRow, UpdateRow, RemoveRow, ReorderRows
  <2> QED
    BY <2>1, RowsKeepImages
<1>8. CASE \E tab \in {"edit", "preview"} : ShowPreview(tab)
  <2>1. /\ DeskFields(pdDesk') /\ pdDesk'.page = pdDesk.page /\ pdDesk'.store = pdDesk.store
        /\ pdDesk'.fetch = pdDesk.fetch /\ pdDesk'.form = pdDesk.form /\ pdDesk'.save = pdDesk.save
        /\ pdServer' = pdServer /\ pdMedia' = pdMedia
    BY <1>0, <1>8 DEF ShowPreview, DeskFields
  <2> QED
    BY <2>1, DeskUntouched
<1>9. CASE \/ \E files \in SUBSET Images \ {{}} : HandleFilesAdded(files)
           \/ \E i \in Images : AddImageByUrl(i)
           \/ \E files \in pdDesk.uploads, ok \in BOOLEAN :
                 \E stored \in SUBSET files : FilesUploaded(files, stored, ok)
           \/ \E p \in pdDesk.form.images : HandleFileRemoved(p)
  BY <1>9, FilesKeepImages
<1> QED
  BY <1>1, <1>2, <1>3, <1>4, <1>5, <1>6, <1>7, <1>8, <1>9 DEF ProductDeskNext

\* Every image of a product the service holds exists, also when the form was
\* sent, left or opened again while its uploads ran or failed.
THEOREM ImagesAreServed == BackOfficeSpec => []SavedImagesExist
<1>1. BackOfficeInit => ImagesInv
  BY ImagesInitInv DEF BackOfficeInit
<1>2. ImagesInv /\ [BackOfficeNext]_backOfficeVars => ImagesInv'
  BY DeskSteps, ImagesStepInv
<1>3. ImagesInv => SavedImagesExist
  BY DEF ImagesInv, ListFits, ProductFits, SavedImagesExist, Stored
<1> QED
  BY <1>1, <1>2, <1>3, PTL DEF BackOfficeSpec

-----------------------------------------------------------------------------
(***************************************************************************)
(* Products: while nothing failed and no list was read across a write, the *)
(* list of the browser is behind the service by the writes whose answers   *)
(* are still to come, and by nothing else.                                 *)
(***************************************************************************)

\* The service has deleted p, or saved something as p, and the answer is on its way.
GoneFrom(d, p) == d.delete.step = "done" /\ d.delete.id = p
SavedIn(d, p) == d.save.step = "done" /\ d.save.id = p

\* What is being deleted stays on the list until the answer comes.
DeletionFits(server, d) ==
    /\ d.delete = Quiet \/ d.delete = [step |-> d.delete.step, id |-> d.delete.id]
    /\ d.delete.step # "none" => d.delete.id \in ProductIds /\ d.store[d.delete.id] # NoProduct
    /\ d.delete.step = "done" => server[d.delete.id] = NoProduct

\* The answer of a save still has to change the list, unless the product was
\* deleted meanwhile.
AnswerFits(server, d, p) ==
    /\ p \in ProductIds
    /\ IF d.save.page.at = "new" THEN server[p] = d.save.data /\ d.store[p] = NoProduct
       ELSE \/ server[p] = d.save.data /\ d.store[p] # NoProduct
            \/ server[p] = NoProduct /\ (d.store[p] = NoProduct \/ GoneFrom(d, p))

CalmListFits(server, d) ==
    /\ d.twice = {}
    /\ d.fetch.step = "read" =>
          d.fetch.rows = server /\ d.save.step = "none" /\ d.delete.step = "none"
    /\ \A p \in ProductIds : d.store[p] = server[p] \/ SavedIn(d, p) \/ GoneFrom(d, p)
    /\ d.save.step = "done" => AnswerFits(server, d, d.save.id)

ServedFits(server, d) == DeletionFits(server, d) /\ (d.calm => CalmListFits(server, d))

ServedInv == ImagesInv /\ ServedFits(pdServer, pdDesk)

\* Two desks with the same lists and requests.
SameRequests(d, e) ==
    /\ e.store = d.store /\ e.twice = d.twice /\ e.delete = d.delete /\ (e.calm => d.calm)
    /\ e.fetch = d.fetch \/ e.fetch.step # "read"
    /\ e.save.step = d.save.step /\ e.save.id = d.save.id /\ e.save.page = d.save.page
    /\ e.save.data = d.save.data

LEMMA SameRequestsFit ==
  ASSUME NEW server, NEW d, NEW e, ServedFits(server, d), SameRequests(d, e)
  PROVE  ServedFits(server, e)
<1>1. \A p : (GoneFrom(e, p) <=> GoneFrom(d, p)) /\ (SavedIn(e, p) <=> SavedIn(d, p))
  BY DEF GoneFrom, SavedIn, SameRequests
<1>2. DeletionFits(server, e)
  BY DEF ServedFits, DeletionFits, SameRequests
<1>3. ASSUME e.calm PROVE CalmListFits(server, e)
  <2>1. CalmListFits(server, d) /\ SameRequests(d, e)
    BY <1>3 DEF ServedFits, SameRequests
  <2>2. e.fetch.step = "read" =>
          e.fetch.rows = server /\ e.save.step = "none" /\ e.delete.step = "none"
    BY <2>1 DEF CalmListFits, SameRequests
  <2>3. e.twice = {}
    BY <2>1 DEF CalmListFits, SameRequests
  <2>4. \A p \in ProductIds : e.store[p] = server[p] \/ SavedIn(e, p) \/ GoneFrom(e, p)
    BY <1>1, <2>1 DEF CalmListFits, SameRequests
  <2>5. e.save.step = "done" => AnswerFits(server, e, e.save.id)
    BY <1>1, <2>1 DEF CalmListFits, AnswerFits, SameRequests
  <2> QED
    BY <2>2, <2>3, <2>4, <2>5 DEF CalmListFits
<1> QED
  BY <1>2, <1>3 DEF ServedFits

\* Filling the form, opening a page and asking for the list leave them alone.
LEMMA PagesLeaveRequests ==
  ASSUME NEW media, NEW d, DeskFits(d, media)
  PROVE  /\ SameRequests(d, Refilled(d)) /\ SameRequests(d, FetchProducts(d))
         /\ \A page : SameRequests(d, Opened(d, page))
<1>0. DeskFields(d) /\ SaveFits(d.save, media)
  BY DEF DeskFits
<1>1. SameRequests(d, Refilled(d))
  <2>1. CASE Refilled(d) = d
    BY <2>1 DEF SameRequests
  <2>2. CASE Refilled(d) # d
    <3>1. PICK g : Refilled(d) = [d EXCEPT !.loading = FALSE, !.form = g]
      <4> DEFINE p == d.store[d.page.id]
                 f == d.form
                 specs == IF p.specs = <<>> THEN f.specs ELSE p.specs
                 variants == IF p.variants = <<>> THEN f.variants ELSE p.variants
                 images == IF p.images = {} THEN f.images ELSE {Pic(i, TRUE) : i \in p.images}
                 e == Refilled(d)
      <4>1. e = [d EXCEPT !.loading = FALSE, !.form.text = p.text, !.form.slug = p.slug,
                          !.form.order = p.order, !.form.specs = specs,
                          !.form.variants = variants, !.form.images = images]
        BY <2>2, Zenon DEF Refilled
      <4> HIDE DEF p, specs, variants, images, e
      <4>2. PICK g : g = [f EXCEPT !.text = p.text, !.slug = p.slug, !.order = p.order,
                                   !.specs = specs, !.variants = variants, !.images = images]
        OBVIOUS
      <4>3. e = [d EXCEPT !.loading = FALSE, !.form = g]
        BY <1>0, <4>1, <4>2 DEF DeskFields
      <4> QED
        BY <4>3 DEF e
    <3>2. PICK e : e = Refilled(d)
      OBVIOUS
    <3>3. /\ e.store = d.store /\ e.twice = d.twice /\ e.delete = d.delete /\ e.calm = d.calm
          /\ e.fetch = d.fetch /\ e.save = d.save
      BY <1>0, <3>1, <3>2 DEF DeskFields
    <3> QED
      BY <3>2, <3>3 DEF SameRequests
  <2> QED
    BY <2>1, <2>2
<1>2. SameRequests(d, FetchProducts(d))
  <2>1. PICK fetch, e : /\ fetch = IF d.fetch = Quiet THEN [step |-> "asked"] ELSE d.fetch
                        /\ e = [d EXCEPT !.fetch = fetch]
    OBVIOUS
  <2>2. e = FetchProducts(d)
    BY <2>1 DEF FetchProducts
  <2>3. /\ e.store = d.store /\ e.twice = d.twice /\ e.delete = d.delete /\ e.calm = d.calm
        /\ e.fetch = fetch /\ e.save = d.save
    BY <1>0, <2>1 DEF DeskFields
  <2> QED
    BY <2>1, <2>2, <2>3 DEF SameRequests
<1>3. ASSUME NEW page PROVE SameRequests(d, Opened(d, page))
  <2>1. PICK old, save : old = d.save /\ save = [old EXCEPT !.here = FALSE]
    OBVIOUS
  <2>2. PICK e : e = [d EXCEPT !.page = page, !.form = BlankForm, !.uploads = {}, !.tab = "edit",
                               !.saved = FALSE, !.save = save]
    OBVIOUS
  <2>3. e = Opened(d, page)
    BY <1>0, <2>1, <2>2 DEF Opened, DeskFields
  <2>4. /\ e.store = d.store /\ e.twice = d.twice /\ e.delete = d.delete /\ e.calm = d.calm
        /\ e.fetch = d.fetch /\ e.save = save
    BY <1>0, <2>2 DEF DeskFields
  <2>5. /\ save.step = old.step /\ save.id = old.id /\ save.page = old.page /\ save.data = old.data
    <3>1. CASE old = Quiet
      <4>a. PICK s : s = [Quiet EXCEPT !.here = FALSE]
        OBVIOUS
      <4>b. s = Quiet
        BY <4>a DEF Quiet
      <4>1. save = Quiet
        BY <2>1, <3>1, <4>a, <4>b
      <4> QED
        BY <3>1, <4>1
    <3>2. CASE old # Quiet
      <4>1. old = [step |-> old.step, here |-> old.here, page |-> old.page, id |-> old.id,
                   data |-> old.data]
        BY <1>0, <2>1, <3>2 DEF SaveFits
      <4> QED
        BY <2>1, <4>1
    <3> QED
      BY <3>1, <3>2
  <2> QED
    BY <2>1, <2>3, <2>4, <2>5 DEF SameRequests
<1> QED
  BY <1>1, <1>2, <1>3

LEMMA ServedInitInv == ProductDeskInit => ServedInv
<1> SUFFICES ASSUME ProductDeskInit PROVE ServedInv
  OBVIOUS
<1>1. /\ pdDesk.store = pdServer /\ pdDesk.twice = {} /\ pdDesk.fetch = Quiet
      /\ pdDesk.save = Quiet /\ pdDesk.delete = Quiet
  BY DEF ProductDeskInit
<1>2. Quiet.step = "none"
  BY DEF Quiet
<1>3. DeletionFits(pdServer, pdDesk)
  BY <1>1, <1>2 DEF DeletionFits
<1>4. CalmListFits(pdServer, pdDesk)
  BY <1>1, <1>2 DEF CalmListFits
<1> QED
  BY <1>3, <1>4, ImagesInitInv DEF ServedInv, ServedFits

\* A step of the page, the form or an upload.
LEMMA PagesKeepServed ==
  ASSUME ServedInv, ImagesInv', pdServer' = pdServer, SameRequests(pdDesk, pdDesk')
  PROVE  ServedInv'
BY SameRequestsFit DEF ServedInv

LEMMA ReadingKeepsServed ==
  ASSUME ServedInv, ImagesInv'
  PROVE  /\ \A ok : ProductsRead(ok) => ServedInv'
         /\ ProductsArrive => ServedInv'
<1>0. /\ DeskFields(pdDesk) /\ DeskFits(pdDesk, pdMedia) /\ ListFits(pdServer, pdMedia)
      /\ ServedFits(pdServer, pdDesk)
  BY DEF ServedInv, ImagesInv, DeskFits
<1>1. ASSUME NEW ok, ProductsRead(ok) PROVE ServedInv'
  <2> DEFINE rows == IF ok THEN pdServer ELSE [p \in ProductIds |-> NoProduct]
             calm == pdDesk.calm /\ ok /\ pdDesk.save = Quiet /\ pdDesk.delete = Quiet
             read == [step |-> "read", rows |-> rows]
  <2>1. /\ pdDesk' = [pdDesk EXCEPT !.fetch = read, !.calm = calm]
        /\ pdServer' = pdServer
    BY <1>0, <1>1 DEF ProductsRead, DeskFields
  <2>2. calm => read.rows = pdServer /\ pdDesk.save = Quiet /\ pdDesk.delete = Quiet /\ pdDesk.calm
    OBVIOUS
  <2> HIDE DEF rows, calm, read
  <2>3. /\ pdDesk'.store = pdDesk.store /\ pdDesk'.twice = pdDesk.twice /\ pdDesk'.delete = pdDesk.delete
        /\ pdDesk'.fetch = read /\ pdDesk'.save = pdDesk.save /\ pdDesk'.calm = calm
    BY <1>0, <2>1 DEF DeskFields
  <2>4. DeletionFits(pdServer, pdDesk')
    BY <1>0, <2>3 DEF ServedFits, DeletionFits
  <2>5. ASSUME calm PROVE CalmListFits(pdServer, pdDesk')
    BY <1>0, <2>2, <2>3, <2>5 DEF ServedFits, CalmListFits, SavedIn, GoneFrom, Quiet
  <2> QED
    BY <2>1, <2>3, <2>4, <2>5 DEF ServedInv, ServedFits
<1>2. ASSUME ProductsArrive PROVE ServedInv'
  <2> DEFINE rows == pdDesk.fetch.rows
             twice == pdDesk.twice \ Stored(rows)
             store == [p \in ProductIds |-> IF rows[p] # NoProduct THEN rows[p] ELSE pdDesk.store[p]]
  <2>1. PICK d, e : /\ d = [pdDesk EXCEPT !.fetch = Quiet, !.twice = twice, !.store = store]
                    /\ e = [pdDesk EXCEPT !.fetch = Quiet]
    OBVIOUS
  <2>2. /\ pdDesk' = e \/ pdDesk' = Refilled(d)
        /\ pdDesk.fetch.step = "read" /\ pdServer' = pdServer
    BY <1>0, <1>2, <2>1 DEF ProductsArrive, DeskFields
  <2>3. Quiet.step = "none"
    BY DEF Quiet
  <2>4. /\ e.store = pdDesk.store /\ e.twice = pdDesk.twice /\ e.delete = pdDesk.delete
        /\ e.fetch = Quiet /\ e.save = pdDesk.save /\ e.calm = pdDesk.calm
    BY <1>0, <2>1 DEF DeskFields
  <2>5. ServedFits(pdServer, e)
    BY <1>0, <2>3, <2>4, SameRequestsFit DEF SameRequests
  <2>6. /\ d.store = store /\ d.twice = twice /\ d.delete = pdDesk.delete
        /\ d.fetch = Quiet /\ d.save = pdDesk.save /\ d.calm = pdDesk.calm /\ d.page = pdDesk.page
        /\ d.form = pdDesk.form /\ DeskFields(d)
    BY <1>0, <2>1 DEF DeskFields
  <2>7. /\ \A p \in ProductIds : pdDesk.store[p] # NoProduct => store[p] # NoProduct
        /\ ListFits(store, pdMedia)
    BY <1>0, <2>2 DEF DeskFits, ListFits
  <2>8. DeletionFits(pdServer, d)
    BY <1>0, <2>6, <2>7 DEF ServedFits, DeletionFits
  <2>9. ASSUME pdDesk.calm PROVE CalmListFits(pdServer, d)
    <3>1. /\ rows = pdServer /\ pdDesk.save.step = "none" /\ pdDesk.delete.step = "none"
          /\ pdDesk.twice = {}
          /\ \A p \in ProductIds : pdDesk.store[p] = pdServer[p]
      BY <1>0, <2>2, <2>9 DEF ServedFits, CalmListFits, SavedIn, GoneFrom
    <3>2. \A p \in ProductIds : store[p] = pdServer[p]
      BY <3>1
    <3> QED
      BY <2>3, <2>6, <3>1, <3>2 DEF CalmListFits
  <2> HIDE DEF store
  <2>10. ServedFits(pdServer, d) /\ DeskFits(d, pdMedia)
    BY <1>0, <2>3, <2>6, <2>7, <2>8, <2>9 DEF ServedFits, DeskFits
  <2>11. ServedFits(pdServer, Refilled(d))
    BY <2>10, PagesLeaveRequests, SameRequestsFit
  <2> QED
    BY <2>2, <2>5, <2>11 DEF ServedInv
<1> QED
  BY <1>1, <1>2

LEMMA OpeningKeepsServed ==
  ASSUME ServedInv, ImagesInv'
  PROVE  /\ OpenList => ServedInv'
         /\ OpenNewProduct => ServedInv'
         /\ \A p \in ProductIds : OpenEditProduct(p) => ServedInv'
         /\ BackToList => ServedInv'
<1>0. DeskFields(pdDesk) /\ DeskFits(pdDesk, pdMedia)
  BY DEF ServedInv, ImagesInv, DeskFits
<1>1. SUFFICES ASSUME OpenList \/ OpenNewProduct \/ BackToList \/ \E p \in ProductIds : OpenEditProduct(p)
               PROVE  SameRequests(pdDesk, pdDesk')
  BY PagesKeepServed DEF OpenList, OpenNewProduct, OpenEditProduct, BackToList
<1>a. \A d, e, f : SameRequests(d, e) /\ SameRequests(e, f) => SameRequests(d, f)
  BY DEF SameRequests
<1>b. ASSUME NEW c, DeskFields(c), c.page = pdDesk.page, c.store = pdDesk.store, c.fetch = pdDesk.fetch,
             c.form = pdDesk.form, c.save = pdDesk.save, c.twice = pdDesk.twice,
             c.delete = pdDesk.delete, c.calm = pdDesk.calm
      PROVE  DeskFits(c, pdMedia) /\ SameRequests(pdDesk, c)
  BY <1>0, <1>b DEF DeskFits, SameRequests
<1>c. ASSUME NEW c, DeskFits(c, pdMedia), NEW page, page.at = "edit" => page.id \in ProductIds
      PROVE  /\ SameRequests(c, FetchProducts(Opened(c, page)))
             /\ SameRequests(c, FetchProducts(Refilled(Opened(c, page))))
  <2>1. DeskFits(Opened(c, page), pdMedia) /\ DeskFits(Refilled(Opened(c, page)), pdMedia)
    BY <1>c, OpenedFits, RefilledFits
  <2>2. SameRequests(c, Opened(c, page)) /\ SameRequests(Opened(c, page), Refilled(Opened(c, page)))
    BY <1>c, <2>1, PagesLeaveRequests
  <2>3. /\ SameRequests(Opened(c, page), FetchProducts(Opened(c, page)))
        /\ SameRequests(Refilled(Opened(c, page)), FetchProducts(Refilled(Opened(c, page))))
    BY <2>1, PagesLeaveRequests
  <2> QED
    BY <1>a, <2>2, <2>3
<1>3. OnList.at # "edit"
  BY DEF OnList
<1>4. CASE OpenList
  BY <1>0, <1>3, <1>4, <1>c DEF OpenList
<1>5. CASE OpenNewProduct
  <2>1. PICK page, d : page = [at |-> "new", id |-> "none"] /\ d = Opened(pdDesk, page)
    OBVIOUS
  <2>2. DeskFits(d, pdMedia) /\ SameRequests(pdDesk, d)
    BY <1>0, <2>1, OpenedFits, PagesLeaveRequests
  <2>3. pdDesk' = [d EXCEPT !.loading = FALSE]
    BY <1>5, <2>1 DEF OpenNewProduct
  <2>4. /\ pdDesk'.store = d.store /\ pdDesk'.fetch = d.fetch /\ pdDesk'.save = d.save
        /\ pdDesk'.twice = d.twice /\ pdDesk'.delete = d.delete /\ pdDesk'.calm = d.calm
    BY <2>2, <2>3 DEF DeskFields, DeskFits
  <2>5. SameRequests(d, pdDesk')
    BY <2>4 DEF SameRequests
  <2> QED
    BY <1>a, <2>2, <2>5
<1>6. CASE \E p \in ProductIds : OpenEditProduct(p)
  <2>1. PICK p \in ProductIds : OpenEditProduct(p)
    BY <1>6
  <2>2. PICK page, c : page = [at |-> "edit", id |-> p] /\ c = [pdDesk EXCEPT !.loading = TRUE]
    OBVIOUS
  <2>3. /\ DeskFields(c) /\ c.page = pdDesk.page /\ c.store = pdDesk.store /\ c.fetch = pdDesk.fetch
        /\ c.form = pdDesk.form /\ c.save = pdDesk.save /\ c.twice = pdDesk.twice
        /\ c.delete = pdDesk.delete /\ c.calm = pdDesk.calm
    BY <1>0, <2>2 DEF DeskFields
  <2>4. DeskFits(c, pdMedia) /\ SameRequests(pdDesk, c)
    BY <1>b, <2>3
  <2>5. SameRequests(c, FetchProducts(Refilled(Opened(c, page))))
    BY <1>c, <2>2, <2>4
  <2>6. pdDesk' = FetchProducts(Refilled(Opened(c, page)))
    BY <2>1, <2>2 DEF OpenEditProduct
  <2> QED
    BY <1>a, <2>4, <2>5, <2>6
<1>7. CASE BackToList
  <2>1. PICK c : c = [pdDesk EXCEPT !.leaving = FALSE]
    OBVIOUS
  <2>2. /\ DeskFields(c) /\ c.page = pdDesk.page /\ c.store = pdDesk.store /\ c.fetch = pdDesk.fetch
        /\ c.form = pdDesk.form /\ c.save = pdDesk.save /\ c.twice = pdDesk.twice
        /\ c.delete = pdDesk.delete /\ c.calm = pdDesk.calm
    BY <1>0, <2>1 DEF DeskFields
  <2>3. DeskFits(c, pdMedia) /\ SameRequests(pdDesk, c)
    BY <1>b, <2>2
  <2>4. SameRequests(c, FetchProducts(Opened(c, OnList)))
    BY <1>3, <1>c, <2>3
  <2>5. pdDesk' = FetchProducts(Opened(c, OnList))
    BY <1>7, <2>1 DEF BackToList
  <2> QED
    BY <1>a, <2>3, <2>4, <2>5
<1> QED
  BY <1>1, <1>4, <1>5, <1>6, <1>7

LEMMA SavingKeepsServed ==
  ASSUME ServedInv, ImagesInv'
  PROVE  /\ HandleSubmitProduct => ServedInv'
         /\ \A p \in ProductIds : ProductSaved(p) => ServedInv'
         /\ SaveAnswered => ServedInv'
         /\ SaveProductFails => ServedInv'
<1>0. /\ DeskFields(pdDesk) /\ DeskFits(pdDesk, pdMedia) /\ ListFits(pdServer, pdMedia)
      /\ ServedFits(pdServer, pdDesk) /\ ImagesInv
  BY DEF ServedInv, ImagesInv, DeskFits
<1>q. Quiet.step = "none"
  BY DEF Quiet
<1>1. ASSUME HandleSubmitProduct PROVE ServedInv'
  <2>1. PICK save, calm : /\ pdDesk' = [pdDesk EXCEPT !.save = save, !.calm = calm]
                          /\ save.step = "sent"
                          /\ calm => pdDesk.calm /\ pdDesk.fetch = Quiet
    <3> DEFINE sent == [step |-> "sent", here |-> TRUE, page |-> pdDesk.page, id |-> "none", data |-> Payload]
               still == pdDesk.calm /\ pdDesk.fetch = Quiet
    <3>1. pdDesk' = [pdDesk EXCEPT !.save = sent, !.calm = still]
      BY <1>0, <1>1 DEF HandleSubmitProduct, DeskFields
    <3>2. sent.step = "sent" /\ (still => pdDesk.calm /\ pdDesk.fetch = Quiet)
      OBVIOUS
    <3> HIDE DEF sent, still
    <3> QED
      BY <3>1, <3>2
  <2>2. pdDesk.save = Quiet /\ pdServer' = pdServer
    BY <1>1 DEF HandleSubmitProduct
  <2>3. /\ pdDesk'.store = pdDesk.store /\ pdDesk'.twice = pdDesk.twice /\ pdDesk'.delete = pdDesk.delete
        /\ pdDesk'.fetch = pdDesk.fetch /\ pdDesk'.save = save /\ pdDesk'.calm = calm
    BY <1>0, <2>1 DEF DeskFields
  <2>4. DeletionFits(pdServer, pdDesk')
    BY <1>0, <2>3 DEF ServedFits, DeletionFits
  <2>5. ASSUME calm PROVE CalmListFits(pdServer, pdDesk')
    BY <1>0, <1>q, <2>1, <2>2, <2>3, <2>5 DEF ServedFits, CalmListFits, SavedIn, GoneFrom
  <2> QED
    BY <2>2, <2>3, <2>4, <2>5 DEF ServedInv, ServedFits
<1>2. ASSUME NEW p \in ProductIds, ProductSaved(p) PROVE ServedInv'
  <2> DEFINE s == pdDesk.save
             kept == IF s.page.at = "new" THEN s.data.slug ELSE pdServer[p].slug
  <2>1. s.step = "sent"
    BY <1>2 DEF ProductSaved
  <2>2. /\ s = [step |-> s.step, here |-> s.here, page |-> s.page, id |-> s.id, data |-> s.data]
        /\ ProductFits(s.data, pdMedia)
    BY <1>0, <2>1, RunningSave
  <2>3. PICK old, product : old = s.data /\ product = [old EXCEPT !.slug = kept]
    OBVIOUS
  <2>4. /\ pdServer' = [pdServer EXCEPT ![p] = product]
        /\ pdDesk' = [pdDesk EXCEPT !.save.step = "done", !.save.id = p, !.save.data = product]
    BY <1>2, <2>3 DEF ProductSaved
  <2>5. IF s.page.at = "new" THEN p \notin Stored(pdServer) \cup Stored(pdDesk.store)
        ELSE p \in Stored(pdServer)
    BY <1>2 DEF ProductSaved
  <2>6. IF s.page.at = "new" THEN pdServer[p] = NoProduct /\ pdDesk.store[p] = NoProduct
        ELSE pdServer[p] # NoProduct
    BY <2>5 DEF Stored
  <2>7. PICK t : t = [s EXCEPT !.step = "done", !.id = p, !.data = product]
    OBVIOUS
  <2>8. t.step = "done" /\ t.id = p /\ t.data = product /\ t.page = s.page
    BY <2>2, <2>7
  <2>9. pdDesk' = [pdDesk EXCEPT !.save = t]
    BY <1>0, <2>4, <2>7 DEF DeskFields
  <2>10. /\ pdDesk'.store = pdDesk.store /\ pdDesk'.twice = pdDesk.twice /\ pdDesk'.delete = pdDesk.delete
         /\ pdDesk'.fetch = pdDesk.fetch /\ pdDesk'.save = t /\ pdDesk'.calm = pdDesk.calm
    BY <1>0, <2>9 DEF DeskFields
  <2>11. /\ pdServer'[p] = product
         /\ \A q \in ProductIds : q # p => pdServer'[q] = pdServer[q]
    BY <1>0, <2>4 DEF ListFits
  <2>12. pdDesk.delete.step = "done" => pdDesk.delete.id # p
    BY <1>0, <2>6 DEF ServedFits, DeletionFits
  <2>13. DeletionFits(pdServer', pdDesk')
    BY <1>0, <2>10, <2>11, <2>12 DEF ServedFits, DeletionFits
  <2>14. ASSUME pdDesk.calm PROVE CalmListFits(pdServer', pdDesk')
    <3>1. CalmListFits(pdServer, pdDesk)
      BY <1>0, <2>14 DEF ServedFits
    <3>2. pdDesk'.twice = {} /\ pdDesk'.fetch.step # "read"
      BY <2>1, <2>10, <3>1 DEF CalmListFits
    <3>3. \A q \in ProductIds : q # p => pdDesk'.store[q] = pdServer'[q] \/ GoneFrom(pdDesk', q)
      BY <2>1, <2>10, <2>11, <3>1 DEF CalmListFits, SavedIn, GoneFrom
    <3>4. SavedIn(pdDesk', p)
      BY <2>8, <2>10 DEF SavedIn
    <3>5. AnswerFits(pdServer', pdDesk', p)
      <4>1. CASE s.page.at = "new"
        BY <2>6, <2>8, <2>10, <2>11, <4>1 DEF AnswerFits
      <4>2. CASE s.page.at # "new"
        <5>1. pdDesk.store[p] = pdServer[p]
          BY <2>1, <2>12, <3>1 DEF CalmListFits, SavedIn, GoneFrom
        <5> QED
          BY <2>6, <2>8, <2>10, <2>11, <4>2, <5>1 DEF AnswerFits
      <4> QED
        BY <4>1, <4>2
    <3> QED
      BY <2>8, <2>10, <3>2, <3>3, <3>4, <3>5 DEF CalmListFits
  <2> QED
    BY <2>10, <2>13, <2>14 DEF ServedInv, ServedFits
<1>3. ASSUME SaveAnswered PROVE ServedInv'
  <2> DEFINE s == pdDesk.save
             known == pdDesk.store[s.id] # NoProduct
             saved == pdDesk.saved \/ s.here
             twice == IF s.page.at = "new" /\ known THEN pdDesk.twice \cup {s.id} ELSE pdDesk.twice
             entry == IF s.page.at = "new" \/ known THEN s.data ELSE pdDesk.store[s.id]
             store == [pdDesk.store EXCEPT ![s.id] = entry]
  <2>1. PICK d : d = [pdDesk EXCEPT !.save = Quiet, !.leaving = TRUE, !.saved = saved,
                                    !.twice = twice, !.store = store]
    OBVIOUS
  <2>2. /\ pdDesk' = Refilled(d) /\ pdServer' = pdServer /\ s.step = "done"
    BY <1>0, <1>3, <2>1 DEF SaveAnswered, DeskFields
  <2>3. ProductFits(s.data, pdMedia) /\ s.data.text # "none"
    BY <1>0, <2>2, RunningSave
  <2>4. ListFits(pdDesk.store, pdMedia)
    BY <1>0 DEF DeskFits
  <2>5. s.data # NoProduct
    BY <2>3 DEF NoProduct
  <2>6. \A p \in ProductIds : store[p] = IF p = s.id THEN entry ELSE pdDesk.store[p]
    BY <2>4 DEF ListFits
  <2>7. ListFits(store, pdMedia)
    BY <2>3, <2>4 DEF ListFits
  <2>8. \A p \in ProductIds : pdDesk.store[p] # NoProduct => store[p] # NoProduct
    BY <2>5, <2>6
  <2> HIDE DEF saved, store
  <2>9. /\ d.store = store /\ d.twice = twice /\ d.delete = pdDesk.delete
        /\ d.fetch = pdDesk.fetch /\ d.save = Quiet /\ d.calm = pdDesk.calm /\ d.page = pdDesk.page
        /\ d.form = pdDesk.form /\ DeskFields(d)
    <3> HIDE DEF twice
    <3> QED
      BY <1>0, <2>1 DEF DeskFields
  <2>10. DeskFits(d, pdMedia)
    BY <1>0, <2>7, <2>9 DEF DeskFits, SaveFits
  <2>11. DeletionFits(pdServer, d)
    BY <1>0, <2>8, <2>9 DEF ServedFits, DeletionFits
  <2>12. ASSUME pdDesk.calm PROVE CalmListFits(pdServer, d)
    <3>1. CalmListFits(pdServer, pdDesk)
      BY <1>0, <2>12 DEF ServedFits
    <3>2. AnswerFits(pdServer, pdDesk, s.id)
      BY <2>2, <3>1 DEF CalmListFits
    <3>3. d.twice = {} /\ d.fetch.step # "read"
      BY <2>2, <2>9, <3>1, <3>2 DEF CalmListFits, AnswerFits
    <3>4. \A p \in ProductIds : p # s.id => d.store[p] = pdServer[p] \/ GoneFrom(d, p)
      BY <2>6, <2>9, <3>1 DEF CalmListFits, SavedIn, GoneFrom
    <3>5. d.store[s.id] = pdServer[s.id] \/ GoneFrom(d, s.id)
      <4>1. d.store[s.id] = entry
        BY <2>6, <2>9, <3>2 DEF AnswerFits
      <4>2. CASE s.page.at = "new"
        BY <3>2, <4>1, <4>2 DEF AnswerFits
      <4>3. CASE s.page.at # "new" /\ pdServer[s.id] = s.data /\ known
        BY <4>1, <4>3
      <4>4. CASE s.page.at # "new" /\ pdServer[s.id] = NoProduct /\ (~known \/ GoneFrom(pdDesk, s.id))
        BY <2>9, <4>1, <4>4 DEF GoneFrom
      <4> QED
        BY <3>2, <4>2, <4>3, <4>4 DEF AnswerFits
    <3> QED
      BY <1>q, <2>9, <3>3, <3>4, <3>5 DEF CalmListFits
  <2>13. ServedFits(pdServer, d)
    BY <2>9, <2>11, <2>12 DEF ServedFits
  <2>14. ServedFits(pdServer, Refilled(d))
    BY <2>10, <2>13, PagesLeaveRequests, SameRequestsFit
  <2> QED
    BY <2>2, <2>14 DEF ServedInv
<1>4. ASSUME SaveProductFails PROVE ServedInv'
  <2>1. /\ pdDesk'.store = pdDesk.store /\ pdDesk'.delete = pdDesk.delete
        /\ pdDesk'.calm = FALSE /\ pdServer' = pdServer
    BY <1>0, <1>4 DEF SaveProductFails, DeskFields
  <2> QED
    BY <1>0, <2>1 DEF ServedInv, ServedFits, DeletionFits
<1> QED
  BY <1>1, <1>2, <1>3, <1>4

LEMMA DeletingKeepsServed ==
  ASSUME ServedInv, ImagesInv'
  PROVE  /\ \A p \in ProductIds : HandleDeleteProduct(p) => ServedInv'
         /\ ProductDeleted => ServedInv'
         /\ DeleteAnswered => ServedInv'
         /\ DeleteFails => ServedInv'
<1>0. /\ DeskFields(pdDesk) /\ DeskFits(pdDesk, pdMedia) /\ ListFits(pdServer, pdMedia)
      /\ ServedFits(pdServer, pdDesk) /\ ImagesInv /\ ListFits(pdDesk.store, pdMedia)
  BY DEF ServedInv, ImagesInv, DeskFits
<1>q. Quiet.step = "none"
  BY DEF Quiet
<1>1. ASSUME NEW p \in ProductIds, HandleDeleteProduct(p) PROVE ServedInv'
  <2>1. PICK gone, calm : /\ pdDesk' = [pdDesk EXCEPT !.delete = gone, !.calm = calm]
                          /\ gone = [step |-> "sent", id |-> p]
                          /\ calm => pdDesk.calm /\ pdDesk.fetch = Quiet
    <3> DEFINE sent == [step |-> "sent", id |-> p]
               still == pdDesk.calm /\ pdDesk.fetch = Quiet
    <3>1. pdDesk' = [pdDesk EXCEPT !.delete = sent, !.calm = still]
      BY <1>0, <1>1 DEF HandleDeleteProduct, DeskFields
    <3>2. still => pdDesk.calm /\ pdDesk.fetch = Quiet
      OBVIOUS
    <3> QED
      BY <3>1, <3>2
  <2>2. pdDesk.delete = Quiet /\ pdServer' = pdServer /\ pdDesk.store[p] # NoProduct
    BY <1>1 DEF HandleDeleteProduct, Stored
  <2>3. /\ pdDesk'.store = pdDesk.store /\ pdDesk'.twice = pdDesk.twice /\ pdDesk'.delete = gone
        /\ pdDesk'.fetch = pdDesk.fetch /\ pdDesk'.save = pdDesk.save /\ pdDesk'.calm = calm
    BY <1>0, <2>1 DEF DeskFields
  <2>4. DeletionFits(pdServer, pdDesk')
    BY <2>1, <2>2, <2>3 DEF DeletionFits
  <2>5. ASSUME calm PROVE CalmListFits(pdServer, pdDesk')
    <3>1. CalmListFits(pdServer, pdDesk) /\ pdDesk.fetch = Quiet
      BY <1>0, <2>1, <2>5 DEF ServedFits
    <3>2. \A q : ~GoneFrom(pdDesk, q) /\ (SavedIn(pdDesk', q) <=> SavedIn(pdDesk, q))
      BY <1>q, <2>2, <2>3 DEF GoneFrom, SavedIn
    <3>3. pdDesk.save.step = "done" => AnswerFits(pdServer, pdDesk', pdDesk.save.id)
      BY <2>3, <3>1, <3>2 DEF CalmListFits, AnswerFits
    <3> QED
      BY <1>q, <2>3, <3>1, <3>2, <3>3 DEF CalmListFits
  <2> QED
    BY <2>2, <2>3, <2>4, <2>5 DEF ServedInv, ServedFits
<1>2. ASSUME ProductDeleted PROVE ServedInv'
  <2> DEFINE id == pdDesk.delete.id
  <2>0. pdDesk.delete.step = "sent" /\ pdServer' = [pdServer EXCEPT ![id] = NoProduct]
    BY <1>2 DEF ProductDeleted
  <2>1. PICK old, gone : old = pdDesk.delete /\ gone = [old EXCEPT !.step = "done"]
    OBVIOUS
  <2>2. pdDesk' = [pdDesk EXCEPT !.delete = gone]
    BY <1>0, <1>2, <2>1 DEF ProductDeleted, DeskFields
  <2>3. old = [step |-> old.step, id |-> old.id]
    BY <1>0, <1>q, <2>0, <2>1 DEF ServedFits, DeletionFits
  <2>4. gone = [step |-> "done", id |-> id]
    BY <2>1, <2>3
  <2>5. /\ pdDesk'.store = pdDesk.store /\ pdDesk'.twice = pdDesk.twice /\ pdDesk'.delete = gone
        /\ pdDesk'.fetch = pdDesk.fetch /\ pdDesk'.save = pdDesk.save /\ pdDesk'.calm = pdDesk.calm
    BY <1>0, <2>2 DEF DeskFields
  <2>6. id \in ProductIds /\ pdDesk.store[id] # NoProduct
    BY <1>0, <2>0 DEF ServedFits, DeletionFits
  <2>7. /\ pdServer'[id] = NoProduct
        /\ \A q \in ProductIds : q # id => pdServer'[q] = pdServer[q]
    BY <1>0, <2>0, <2>6 DEF ListFits
  <2>8. DeletionFits(pdServer', pdDesk')
    BY <2>4, <2>5, <2>6, <2>7 DEF DeletionFits
  <2>9. ASSUME pdDesk.calm PROVE CalmListFits(pdServer', pdDesk')
    <3>1. CalmListFits(pdServer, pdDesk)
      BY <1>0, <2>9 DEF ServedFits
    <3>2. pdDesk'.twice = {} /\ pdDesk'.fetch.step # "read"
      BY <2>0, <2>5, <3>1 DEF CalmListFits
    <3>3. GoneFrom(pdDesk', id) /\ \A q : ~GoneFrom(pdDesk, q)
      BY <2>0, <2>4, <2>5 DEF GoneFrom
    <3>4. \A q \in ProductIds : \/ pdDesk'.store[q] = pdServer'[q]
                                \/ SavedIn(pdDesk', q) \/ GoneFrom(pdDesk', q)
      BY <2>5, <2>7, <3>1, <3>3 DEF CalmListFits, SavedIn
    <3>5. ASSUME pdDesk.save.step = "done" PROVE AnswerFits(pdServer', pdDesk', pdDesk.save.id)
      <4>1. AnswerFits(pdServer, pdDesk, pdDesk.save.id)
        BY <3>1, <3>5 DEF CalmListFits
      <4>2. CASE pdDesk.save.id = id
        BY <2>5, <2>6, <2>7, <3>3, <4>1, <4>2 DEF AnswerFits
      <4>3. CASE pdDesk.save.id # id
        BY <2>5, <2>7, <3>3, <4>1, <4>3 DEF AnswerFits
      <4> QED
        BY <4>2, <4>3
    <3> QED
      BY <2>5, <3>2, <3>4, <3>5 DEF CalmListFits
  <2> QED
    BY <2>5, <2>8, <2>9 DEF ServedInv, ServedFits
<1>3. ASSUME DeleteAnswered PROVE ServedInv'
  <2> DEFINE id == pdDesk.delete.id
             store == [pdDesk.store EXCEPT ![id] = NoProduct]
             twice == pdDesk.twice \ {id}
  <2>1. /\ pdDesk' = [pdDesk EXCEPT !.store = store, !.twice = twice, !.delete = Quiet]
        /\ pdServer' = pdServer /\ pdDesk.delete.step = "done"
    BY <1>0, <1>3 DEF DeleteAnswered, DeskFields
  <2>2. id \in ProductIds /\ pdDesk.store[id] # NoProduct /\ pdServer[id] = NoProduct
    BY <1>0, <2>1 DEF ServedFits, DeletionFits
  <2>3. /\ store[id] = NoProduct
        /\ \A q \in ProductIds : q # id => store[q] = pdDesk.store[q]
    BY <1>0, <2>2 DEF ListFits
  <2> HIDE DEF store
  <2>4. /\ pdDesk'.store = store /\ pdDesk'.twice = twice /\ pdDesk'.delete = Quiet
        /\ pdDesk'.fetch = pdDesk.fetch /\ pdDesk'.save = pdDesk.save /\ pdDesk'.calm = pdDesk.calm
    BY <1>0, <2>1 DEF DeskFields
  <2>5. DeletionFits(pdServer, pdDesk')
    BY <1>q, <2>4 DEF DeletionFits
  <2>6. ASSUME pdDesk.calm PROVE CalmListFits(pdServer, pdDesk')
    <3>1. CalmListFits(pdServer, pdDesk)
      BY <1>0, <2>6 DEF ServedFits
    <3>2. pdDesk'.twice = {} /\ pdDesk'.fetch.step # "read"
      BY <2>1, <2>4, <3>1 DEF CalmListFits
    <3>3. \A q \in ProductIds : pdDesk'.store[q] = pdServer[q] \/ SavedIn(pdDesk', q)
      BY <2>2, <2>3, <2>4, <3>1 DEF CalmListFits, SavedIn, GoneFrom
    <3>4. ASSUME pdDesk.save.step = "done" PROVE AnswerFits(pdServer, pdDesk', pdDesk.save.id)
      <4>1. AnswerFits(pdServer, pdDesk, pdDesk.save.id)
        BY <3>1, <3>4 DEF CalmListFits
      <4>2. CASE pdDesk.save.id = id
        <5>1. pdDesk.save.page.at # "new"
          BY <2>2, <4>1, <4>2 DEF AnswerFits
        <5> QED
          BY <2>2, <2>3, <2>4, <4>2, <5>1 DEF AnswerFits
      <4>3. CASE pdDesk.save.id # id
        <5>1. ~GoneFrom(pdDesk, pdDesk.save.id)
          BY <4>3 DEF GoneFrom
        <5> QED
          BY <2>3, <2>4, <4>1, <4>3, <5>1 DEF AnswerFits
      <4> QED
        BY <4>2, <4>3
    <3> QED
      BY <2>4, <3>2, <3>3, <3>4 DEF CalmListFits
  <2> QED
    BY <2>1, <2>4, <2>5, <2>6 DEF ServedInv, ServedFits
<1>4. ASSUME DeleteFails PROVE ServedInv'
  <2>1. /\ pdDesk'.store = pdDesk.store /\ pdDesk'.delete = Quiet
        /\ pdDesk'.calm = FALSE /\ pdServer' = pdServer
    BY <1>0, <1>4 DEF DeleteFails, DeskFields
  <2> QED
    BY <1>0, <1>q, <2>1 DEF ServedInv, ServedFits, DeletionFits
<1> QED
  BY <1>1, <1>2, <1>3, <1>4

\* What is done to the form, its images and its tab.
LEMMA InputsLeaveRequests ==
  ASSUME ServedInv,
         \/ FillProductForm \/ \E slug : TypeSlug(slug)
         \/ \E list, rows : EditList(list, rows)
         \/ \E from, to : ReorderSections(from, to)
         \/ \E tab : ShowPreview(tab)
         \/ \E files : HandleFilesAdded(files)
         \/ \E files, stored, ok : FilesUploaded(files, stored, ok)
         \/ \E p : HandleFileRemoved(p)
         \/ \E i : AddImageByUrl(i)
  PROVE  pdServer' = pdServer /\ SameRequests(pdDesk, pdDesk')
<1>0. DeskFields(pdDesk)
  BY DEF ServedInv, ImagesInv, DeskFits
<1>1. PICK form, uploads, tab, calm :
        /\ pdDesk' = [pdDesk EXCEPT !.form = form, !.uploads = uploads, !.tab = tab, !.calm = calm]
        /\ calm => pdDesk.calm
  <2> SUFFICES \E form, uploads, tab, calm :
        /\ pdDesk' = [pdDesk EXCEPT !.form = form, !.uploads = uploads, !.tab = tab, !.calm = calm]
        /\ calm => pdDesk.calm
    OBVIOUS
  <2> DEFINE old == pdDesk.form
  <2>0. PICK input, batches, shown, still :
            /\ input = pdDesk.form /\ batches = pdDesk.uploads /\ shown = pdDesk.tab
            /\ still = pdDesk.calm
    OBVIOUS
  <2>a. still => pdDesk.calm
    BY <2>0
  <2>1. ASSUME NEW form, pdDesk' = [pdDesk EXCEPT !.form = form]
        PROVE  pdDesk' = [pdDesk EXCEPT !.form = form, !.uploads = batches, !.tab = shown,
                                        !.calm = still]
    BY <1>0, <2>0, <2>1 DEF DeskFields
  <2>2. CASE \/ FillProductForm \/ \E slug : TypeSlug(slug)
             \/ \E list, rows : EditList(list, rows)
             \/ \E from, to : ReorderSections(from, to)
             \/ \E p : HandleFileRemoved(p)
    <3>1. \E form : pdDesk' = [pdDesk EXCEPT !.form = form]
      <4>1. CASE FillProductForm
        <5>1. PICK form : form = [old EXCEPT !.text = "typed"]
          OBVIOUS
        <5>2. pdDesk' = [pdDesk EXCEPT !.form = form]
          BY <1>0, <4>1, <5>1 DEF FillProductForm, DeskFields
        <5> QED
          BY <5>2
      <4>2. CASE \E slug : TypeSlug(slug)
        <5>1. PICK slug : TypeSlug(slug)
          BY <4>2
        <5>2. PICK form : form = [old EXCEPT !.slug = slug]
          OBVIOUS
        <5>3. pdDesk' = [pdDesk EXCEPT !.form = form]
          BY <1>0, <5>1, <5>2 DEF TypeSlug, DeskFields
        <5> QED
          BY <5>3
      <4>3. CASE \E list, rows : EditList(list, rows)
        <5>1. PICK list, rows : EditList(list, rows)
          BY <4>3
        <5>2. PICK form : form = WithList(pdDesk.form, list, rows)
          OBVIOUS
        <5>3. pdDesk' = [pdDesk EXCEPT !.form = form]
          BY <1>0, <5>1, <5>2 DEF EditList, DeskFields
        <5> QED
          BY <5>3
      <4>4. CASE \E from, to : ReorderSections(from, to)
        <5>1. PICK order : pdDesk' = [pdDesk EXCEPT !.form.order = order]
          BY <4>4 DEF ReorderSections
        <5>2. PICK form : form = [old EXCEPT !.order = order]
          OBVIOUS
        <5>3. pdDesk' = [pdDesk EXCEPT !.form = form]
          BY <1>0, <5>1, <5>2 DEF DeskFields
        <5> QED
          BY <5>3
      <4>5. CASE \E p : HandleFileRemoved(p)
        <5>1. PICK p : HandleFileRemoved(p)
          BY <4>5
        <5>2. PICK form : form = [old EXCEPT !.images = old.images \ {p}]
          OBVIOUS
        <5>3. pdDesk' = [pdDesk EXCEPT !.form = form]
          BY <1>0, <5>1, <5>2 DEF HandleFileRemoved, DeskFields
        <5> QED
          BY <5>3
      <4> QED
        BY <2>2, <4>1, <4>2, <4>3, <4>4, <4>5
    <3>2. PICK form : pdDesk' = [pdDesk EXCEPT !.form = form]
      BY <3>1
    <3>3. pdDesk' = [pdDesk EXCEPT !.form = form, !.uploads = batches, !.tab = shown, !.calm = still]
      BY <2>1, <3>2
    <3> QED
      BY <2>a, <3>3
  <2>3. CASE \E tab : ShowPreview(tab)
    <3>1. PICK tab : pdDesk' = [pdDesk EXCEPT !.tab = tab]
      BY <2>3 DEF ShowPreview
    <3>2. pdDesk' = [pdDesk EXCEPT !.form = input, !.uploads = batches, !.tab = tab,
                                   !.calm = still]
      BY <1>0, <2>0, <3>1 DEF DeskFields
    <3> QED
      BY <2>a, <3>2
  <2>4. CASE \E files : HandleFilesAdded(files)
    <3>1. PICK files : HandleFilesAdded(files)
      BY <2>4
    <3>2. PICK images, uploads, form : /\ images = old.images \cup {Pic(i, FALSE) : i \in files}
                                       /\ uploads = pdDesk.uploads \cup {files}
                                       /\ form = [old EXCEPT !.images = images]
      OBVIOUS
    <3>3. pdDesk' = [pdDesk EXCEPT !.form = form, !.uploads = uploads, !.tab = shown,
                                   !.calm = still]
      BY <1>0, <2>0, <3>1, <3>2 DEF HandleFilesAdded, DeskFields
    <3> QED
      BY <2>a, <3>3
  <2>5. CASE \E files, stored, ok : FilesUploaded(files, stored, ok)
    <3>1. PICK files, stored, ok : FilesUploaded(files, stored, ok)
      BY <2>5
    <3> DEFINE waiting == {p \in old.images : p.file \in files /\ ~p.stored}
               rest == old.images \ waiting
    <3>2. PICK images, uploads, calm, form :
             /\ images = IF ok THEN rest \cup {Pic(p.file, TRUE) : p \in waiting} ELSE rest
             /\ uploads = pdDesk.uploads \ {files}
             /\ calm = (pdDesk.calm /\ ok)
             /\ form = [old EXCEPT !.images = images]
      OBVIOUS
    <3>3. pdDesk' = [pdDesk EXCEPT !.form = form, !.uploads = uploads, !.tab = shown,
                                   !.calm = calm]
      BY <1>0, <2>0, <3>1, <3>2 DEF FilesUploaded, DeskFields
    <3>4. calm => pdDesk.calm
      BY <3>2
    <3> QED
      BY <3>3, <3>4
  <2>6. CASE \E i : AddImageByUrl(i)
    <3>1. PICK i : AddImageByUrl(i)
      BY <2>6
    <3>2. PICK images, form : /\ images = old.images \cup {Pic(i, TRUE)}
                              /\ form = [old EXCEPT !.images = images]
      OBVIOUS
    <3>3. pdDesk' = [pdDesk EXCEPT !.form = form]
      BY <1>0, <3>1, <3>2 DEF AddImageByUrl, DeskFields
    <3>4. pdDesk' = [pdDesk EXCEPT !.form = form, !.uploads = batches, !.tab = shown, !.calm = still]
      BY <2>1, <3>3
    <3> QED
      BY <2>a, <3>4
  <2> QED
    BY <2>2, <2>3, <2>4, <2>5, <2>6
<1>2. /\ pdDesk'.store = pdDesk.store /\ pdDesk'.twice = pdDesk.twice /\ pdDesk'.delete = pdDesk.delete
      /\ pdDesk'.fetch = pdDesk.fetch /\ pdDesk'.save = pdDesk.save /\ pdDesk'.calm = calm
  BY ONLY <1>0, <1>1 DEF DeskFields
<1>3. pdServer' = pdServer
  BY DEF FillProductForm, TypeSlug, EditList, ReorderSections, ShowPreview, HandleFilesAdded,
     FilesUploaded, HandleFileRemoved, AddImageByUrl
<1> QED
  BY <1>1, <1>2, <1>3 DEF SameRequests

LEMMA ServedStepInv == ServedInv /\ [ProductDeskNext]_productDeskVars => ServedInv'
<1> SUFFICES ASSUME ServedInv, [ProductDeskNext]_productDeskVars PROVE ServedInv'
  OBVIOUS
<1>0. ImagesInv'
  BY ImagesStepInv DEF ServedInv
<1>1. CASE UNCHANGED productDeskVars
  BY <1>0, <1>1, PagesKeepServed DEF productDeskVars, SameRequests
<1>2. CASE \/ \E ok \in BOOLEAN : ProductsRead(ok)
           \/ ProductsArrive \/ OpenList \/ OpenNewProduct \/ BackToList
           \/ \E p \in ProductIds : OpenEditProduct(p)
  BY <1>0, <1>2, ReadingKeepsServed, OpeningKeepsServed
<1>3. CASE \/ \E p \in ProductIds : ProductSaved(p) \/ HandleDeleteProduct(p)
           \/ HandleSubmitProduct \/ SaveAnswered \/ SaveProductFails
           \/ ProductDeleted \/ DeleteAnswered \/ DeleteFails
  BY <1>0, <1>3, SavingKeepsServed, DeletingKeepsServed
<1>4. CASE \/ \E list \in RowLists : AddRow(list) \/ \E id \in 1..2 : UpdateRow(list, id) \/ RemoveRow(list, id)
           \/ \E from, to \in 1..2 : ReorderRows(from, to)
  <2>1. \E list, rows : EditList(list, rows)
    BY <1>4 DEF AddRow, UpdateRow, RemoveRow, ReorderRows
  <2> QED
    BY <1>0, <2>1, InputsLeaveRequests, PagesKeepServed
<1>5. CASE \/ \E slug \in {"auto", "own"} : TypeSlug(slug)
           \/ FillProductForm
           \/ \E from, to \in 1..3 : ReorderSections(from, to)
           \/ \E tab \in {"edit", "preview"} : ShowPreview(tab)
  BY <1>0, <1>5, InputsLeaveRequests, PagesKeepServed
<1>6. CASE \/ \E files \in SUBSET Images \ {{}} : HandleFilesAdded(files)
           \/ \E i \in Images : AddImageByUrl(i)
           \/ \E files \in pdDesk.uploads, ok \in BOOLEAN :
                 \E stored \in SUBSET files : FilesUploaded(files, stored, ok)
           \/ \E p \in pdDesk.form.images : HandleFileRemoved(p)
  BY <1>0, <1>6, InputsLeaveRequests, PagesKeepServed
<1> QED
  BY <1>1, <1>2, <1>3, <1>4, <1>5, <1>6 DEF ProductDeskNext

LEMMA ServedAtRest == ServedInv => CalmProductsAreServed
<1> SUFFICES ASSUME ServedInv, pdDesk.calm, pdDesk.save = Quiet, pdDesk.delete = Quiet, pdDesk.fetch = Quiet
             PROVE  pdDesk.store = pdServer /\ pdDesk.twice = {}
  BY DEF CalmProductsAreServed
<1>1. CalmListFits(pdServer, pdDesk)
  BY DEF ServedInv, ServedFits
<1>2. \A p \in ProductIds : pdDesk.store[p] = pdServer[p]
  BY <1>1 DEF CalmListFits, SavedIn, GoneFrom, Quiet
<1>3. /\ pdServer = [p \in ProductIds |-> pdServer[p]]
      /\ pdDesk.store = [p \in ProductIds |-> pdDesk.store[p]]
  BY DEF ServedInv, ImagesInv, DeskFits, ListFits
<1> QED
  BY <1>1, <1>2, <1>3 DEF CalmListFits

-----------------------------------------------------------------------------
(***************************************************************************)
(* Categories: while nothing failed and no two reloads were merged, the    *)
(* list agrees with the service, or an answer that agrees with it is here, *)
(* or the list is still to be read.                                        *)
(***************************************************************************)

CatFields(d) ==
    d = [list |-> d.list, fetch |-> d.fetch, tab |-> d.tab, editing |-> d.editing,
         form |-> d.form, was |-> d.was, picture |-> d.picture, save |-> d.save,
         delete |-> d.delete, upload |-> d.upload, calm |-> d.calm]

AgreesWith(rows, server) == \A c \in CatIds : server[c] # Absent => rows[c] = server[c]

ReloadFits(server, d) ==
    d.calm => \/ d.fetch.stage = "asked"
              \/ d.fetch.stage = "read" /\ AgreesWith(d.fetch.rows, server)
              \/ d.fetch = NoFetch /\ AgreesWith(d.list, server)

CatListInv ==
    /\ catServer = [c \in CatIds |-> catServer[c]]
    /\ CatFields(catDesk) /\ ReloadFits(catServer, catDesk)

\* A step of the modal, of an upload or of a request that does not end.
LEMMA ModalKeepsList ==
  ASSUME CatListInv, catServer' = catServer, CatFields(catDesk'),
         catDesk'.list = catDesk.list, catDesk'.fetch = catDesk.fetch,
         catDesk'.calm => catDesk.calm
  PROVE  CatListInv'
BY DEF CatListInv, ReloadFits

\* A write that the service has taken is followed by a reload.
LEMMA AskingFits ==
  ASSUME NEW d, CatFields(d), NEW server
  PROVE  CatFields(Asking(d)) /\ ReloadFits(server, Asking(d))
<1>1. PICK fetch, calm, e : /\ fetch = IF d.fetch = NoFetch THEN [stage |-> "asked"] ELSE d.fetch
                            /\ calm = (d.calm /\ d.fetch = NoFetch)
                            /\ e = [d EXCEPT !.fetch = fetch, !.calm = calm]
  OBVIOUS
<1>2. e = Asking(d)
  BY <1>1 DEF Asking, CatFields
<1>3. CatFields(e) /\ e.fetch = fetch /\ e.calm = calm
  BY <1>1 DEF CatFields
<1>4. calm => fetch = [stage |-> "asked"]
  BY <1>1
<1>5. calm => fetch.stage = "asked"
  BY <1>4
<1> QED
  BY <1>2, <1>3, <1>5 DEF ReloadFits

\* Going on after a reload leaves the list and its reload alone.
LEMMA ResumeLeavesList ==
  ASSUME NEW d, CatFields(d), NEW j \in {"save", "delete"}
  PROVE  LET e == Resume(d, j)
         IN  CatFields(e) /\ e.list = d.list /\ e.fetch = d.fetch /\ e.calm = d.calm
<1>1. PICK next, editing, e :
        /\ next = AfterStep(d[j])
        /\ editing = IF j = "save" /\ next = NoCatJob THEN "none" ELSE d.editing
        /\ e = [d EXCEPT ![j] = next, !.editing = editing]
  OBVIOUS
<1>2. e = Resume(d, j)
  BY <1>1 DEF Resume, CatFields
<1>3. CatFields(e) /\ e.list = d.list /\ e.fetch = d.fetch /\ e.calm = d.calm
  <2>1. CASE j = "save"
    BY <1>1, <2>1 DEF CatFields
  <2>2. CASE j = "delete"
    BY <1>1, <2>2 DEF CatFields
  <2> QED
    BY <2>1, <2>2
<1> QED
  BY <1>2, <1>3

LEMMA CatListInitInv == CategoryInit => CatListInv
<1> SUFFICES ASSUME CategoryInit PROVE CatListInv
  OBVIOUS
<1>1. CatFields(catDesk) /\ catDesk.fetch = [stage |-> "asked"]
  BY DEF CategoryInit, CatFields
<1>2. catServer = [c \in CatIds |-> catServer[c]]
  BY DEF CategoryInit
<1> QED
  BY <1>1, <1>2 DEF CatListInv, ReloadFits

\* The list is read and arrives.
LEMMA ReadingKeepsList ==
  ASSUME CatListInv
  PROVE  /\ \A ok : ListRead(ok) => CatListInv'
         /\ ListArrives => CatListInv'
<1>0. /\ CatFields(catDesk) /\ ReloadFits(catServer, catDesk)
      /\ catServer = [c \in CatIds |-> catServer[c]]
  BY DEF CatListInv
<1>1. ASSUME NEW ok, ListRead(ok) PROVE CatListInv'
  <2> DEFINE rows == IF ok THEN catServer ELSE [c \in CatIds |-> Absent]
             read == [stage |-> "read", rows |-> rows]
             calm == catDesk.calm /\ ok
  <2>1. catDesk' = [catDesk EXCEPT !.fetch = read, !.calm = calm] /\ catServer' = catServer
    BY <1>0, <1>1 DEF ListRead, CatFields
  <2>2. calm => read.stage = "read" /\ read.rows = catServer
    OBVIOUS
  <2> HIDE DEF rows, read, calm
  <2>3. CatFields(catDesk') /\ catDesk'.fetch = read /\ catDesk'.calm = calm
    BY <1>0, <2>1 DEF CatFields
  <2>4. ReloadFits(catServer, catDesk')
    BY <2>2, <2>3 DEF ReloadFits, AgreesWith
  <2> QED
    BY <1>0, <2>1, <2>3, <2>4 DEF CatListInv
<1>2. ASSUME ListArrives PROVE CatListInv'
  <2>1. PICK list, d : /\ list = Merged(catDesk.list, catDesk.fetch.rows)
                       /\ d = [catDesk EXCEPT !.list = list, !.fetch = NoFetch]
    OBVIOUS
  <2>2. CatFields(d) /\ d.list = list /\ d.fetch = NoFetch /\ d.calm = catDesk.calm
    BY <1>0, <2>1 DEF CatFields
  <2>3. PICK e : e = IF "save" \in Waiters(d) THEN Resume(d, "save") ELSE d
    OBVIOUS
  <2>4. CatFields(e) /\ e.list = d.list /\ e.fetch = d.fetch /\ e.calm = d.calm
    BY <2>2, <2>3, ResumeLeavesList
  <2>5. /\ catDesk' = IF "delete" \in Waiters(d) THEN Resume(e, "delete") ELSE e
        /\ catServer' = catServer /\ catDesk.fetch.stage = "read"
    BY <1>0, <1>2, <2>1, <2>3 DEF ListArrives, CatFields
  <2>6. CatFields(catDesk') /\ catDesk'.list = d.list /\ catDesk'.fetch = d.fetch /\ catDesk'.calm = d.calm
    BY <2>4, <2>5, ResumeLeavesList
  <2>7. ASSUME catDesk.calm PROVE AgreesWith(list, catServer)
    <3>1. AgreesWith(catDesk.fetch.rows, catServer)
      BY <1>0, <2>5, <2>7 DEF ReloadFits, NoFetch
    <3> QED
      BY <2>1, <3>1 DEF AgreesWith, Merged
  <2>8. ReloadFits(catServer, catDesk')
    BY <2>2, <2>6, <2>7 DEF ReloadFits
  <2> QED
    BY <1>0, <2>5, <2>6, <2>8 DEF CatListInv
<1> QED
  BY <1>1, <1>2

\* The modal is opened, filled and closed, a save or a deletion begins.
LEMMA ModalStepsKeepList ==
  ASSUME CatListInv,
         \/ \E tab : PickTab(tab)
         \/ OpenCreate \/ CloseModal \/ HandleSaveCategory \/ HandleFileChange \/ HandleRemoveImage
         \/ \E c : OpenEdit(c) \/ HandleDeleteCategory(c)
         \/ \E p, s : FillCategoryForm(p, s)
         \/ UploadCategoryImage \/ ImageFails
  PROVE  CatListInv'
<1>0. CatFields(catDesk)
  BY DEF CatListInv
<1>1. catServer' = catServer
  BY DEF PickTab, OpenCreate, CloseModal, HandleSaveCategory, HandleFileChange, HandleRemoveImage,
     OpenEdit, HandleDeleteCategory, FillCategoryForm, UploadCategoryImage, Uploading, ImageFails
<1>2. SUFFICES /\ CatFields(catDesk') /\ catDesk'.list = catDesk.list /\ catDesk'.fetch = catDesk.fetch
               /\ catDesk'.calm => catDesk.calm
  BY <1>1, ModalKeepsList
<1>3. CASE (\E tab : PickTab(tab)) \/ OpenCreate \/ CloseModal
  BY <1>0, <1>3 DEF PickTab, OpenCreate, CloseModal, CatFields
<1>4. CASE HandleSaveCategory
  <2>1. PICK save : catDesk' = [catDesk EXCEPT !.save = save]
    BY <1>4 DEF HandleSaveCategory
  <2> QED
    BY <1>0, <2>1 DEF CatFields
<1>5. CASE HandleFileChange \/ HandleRemoveImage \/ UploadCategoryImage
  <2>1. \E upload : catDesk' = [catDesk EXCEPT !.upload = upload]
    <3>1. CASE HandleFileChange \/ HandleRemoveImage
      BY <3>1 DEF HandleFileChange, HandleRemoveImage
    <3>2. CASE UploadCategoryImage
      <4>1. PICK step : catDesk' = [catDesk EXCEPT !.upload.step = step]
        BY <3>2 DEF UploadCategoryImage, Uploading
      <4>2. PICK upload : upload = [catDesk.upload EXCEPT !.step = step]
        OBVIOUS
      <4>3. catDesk' = [catDesk EXCEPT !.upload = upload]
        BY <1>0, <4>1, <4>2 DEF CatFields
      <4> QED
        BY <4>3
    <3> QED
      BY <1>5, <3>1, <3>2
  <2>2. PICK upload : catDesk' = [catDesk EXCEPT !.upload = upload]
    BY <2>1
  <2> QED
    BY <1>0, <2>2 DEF CatFields
<1>6. CASE \E c : OpenEdit(c)
  <2>0. PICK c : OpenEdit(c)
    BY <1>6
  <2>a. PICK form, was, picture :
          /\ form = catDesk.list[c] /\ was = catDesk.list[c].status
          /\ picture = IF catDesk.list[c].image THEN c ELSE NoParent
    OBVIOUS
  <2>1. catDesk' = [catDesk EXCEPT !.editing = c, !.form = form, !.was = was, !.picture = picture]
    BY <2>0, <2>a DEF OpenEdit
  <2> QED
    BY <1>0, <2>1 DEF CatFields
<1>7. CASE \E c : HandleDeleteCategory(c)
  <2>1. PICK gone : catDesk' = [catDesk EXCEPT !.delete = gone]
    BY <1>7 DEF HandleDeleteCategory
  <2> QED
    BY <1>0, <2>1 DEF CatFields
<1>8. CASE \E p, s : FillCategoryForm(p, s)
  <2>1. PICK p, s : catDesk' = [catDesk EXCEPT !.form.parent = p, !.form.status = s]
    BY <1>8 DEF FillCategoryForm
  <2>2. PICK form : form = [catDesk.form EXCEPT !.parent = p, !.status = s]
    OBVIOUS
  <2>3. catDesk' = [catDesk EXCEPT !.form = form]
    BY <1>0, <2>1, <2>2 DEF CatFields
  <2> QED
    BY <1>0, <2>3 DEF CatFields
<1>9. CASE ImageFails
  BY <1>0, <1>9 DEF ImageFails, CatFields
<1> QED
  BY <1>3, <1>4, <1>5, <1>6, <1>7, <1>8, <1>9

\* A write is taken or fails, an image is confirmed or removed, and another
\* administrator deletes a category.
LEMMA WritesKeepList ==
  ASSUME CatListInv
  PROVE  /\ \A j \in {"save", "delete"}, id \in CatIds :
              CategoryWritten(j, id) \/ CategoryWriteFails(j, id) => CatListInv'
         /\ ImageSettled => CatListInv'
         /\ \A c \in CatIds : DeletedElsewhere(c) => CatListInv'
<1>0. /\ CatFields(catDesk) /\ ReloadFits(catServer, catDesk)
      /\ catServer = [c \in CatIds |-> catServer[c]]
  BY DEF CatListInv
<1>1. ASSUME NEW j \in {"save", "delete"}, NEW id \in CatIds, CategoryWritten(j, id) PROVE CatListInv'
  <2> DEFINE w == FirstWrite(catDesk[j])
  <2>1. PICK next, d : /\ next = [catDesk[j] EXCEPT !.step = "reload", !.writes = @ \ {w}]
                       /\ d = [catDesk EXCEPT ![j] = next]
    OBVIOUS
  <2>2. CatFields(d)
    <3>1. CASE j = "save"
      BY <1>0, <2>1, <3>1 DEF CatFields
    <3>2. CASE j = "delete"
      BY <1>0, <2>1, <3>2 DEF CatFields
    <3> QED
      BY <3>1, <3>2
  <2>3. d = [catDesk EXCEPT ![j].step = "reload", ![j].writes = @ \ {w}]
    <3>1. CASE j = "save"
      BY <1>0, <2>1, <3>1 DEF CatFields
    <3>2. CASE j = "delete"
      BY <1>0, <2>1, <3>2 DEF CatFields
    <3> QED
      BY <3>1, <3>2
  <2>4. catDesk' = Asking(d) /\ catServer' = Served(w, catDesk[j], id)
    BY <1>1, <2>3 DEF CategoryWritten
  <2>5. catServer' = [c \in CatIds |-> catServer'[c]]
    <3> HIDE DEF w
    <3> QED
      BY <1>0, <2>4 DEF Served
  <2> QED
    BY <2>2, <2>4, <2>5, AskingFits DEF CatListInv
<1>2. ASSUME NEW j \in {"save", "delete"}, NEW id \in CatIds, CategoryWriteFails(j, id) PROVE CatListInv'
  <2> DEFINE w == FirstWrite(catDesk[j])
  <2>1. PICK list, next, d : /\ list = LocalWrite(catDesk.list, w, catDesk[j], id)
                             /\ next = [catDesk[j] EXCEPT !.step = "reload", !.writes = @ \ {w}]
                             /\ d = [catDesk EXCEPT !.list = list, ![j] = next, !.calm = FALSE]
    OBVIOUS
  <2>2. CatFields(d) /\ d.calm = FALSE
    <3>1. CASE j = "save"
      BY <1>0, <2>1, <3>1 DEF CatFields
    <3>2. CASE j = "delete"
      BY <1>0, <2>1, <3>2 DEF CatFields
    <3> QED
      BY <3>1, <3>2
  <2>3. d = [catDesk EXCEPT !.list = LocalWrite(@, w, catDesk[j], id),
                            ![j].step = "reload", ![j].writes = @ \ {w}, !.calm = FALSE]
    <3>1. CASE j = "save"
      BY <1>0, <2>1, <3>1 DEF CatFields
    <3>2. CASE j = "delete"
      BY <1>0, <2>1, <3>2 DEF CatFields
    <3> QED
      BY <3>1, <3>2
  <2>4. catDesk' = Resume(d, j) /\ catServer' = catServer
    BY <1>2, <2>3 DEF CategoryWriteFails
  <2>5. CatFields(catDesk') /\ catDesk'.calm = FALSE
    BY <2>2, <2>4, ResumeLeavesList
  <2> QED
    BY <1>0, <2>4, <2>5 DEF CatListInv, ReloadFits
<1>3. ASSUME ImageSettled PROVE CatListInv'
  <2> DEFINE stays == catDesk.upload.step = "confirm"
             c == catDesk.upload.target
             shown == IF stays THEN c ELSE NoParent
  <2>1. PICK d : d = [catDesk EXCEPT !.upload = NoCatJob, !.picture = shown]
    OBVIOUS
  <2>2. CatFields(d)
    BY <1>0, <2>1 DEF CatFields
  <2>3. catDesk' = Asking(d) /\ catServer' = [catServer EXCEPT ![c].image = stays]
    BY <1>3, <2>1 DEF ImageSettled
  <2>4. catServer' = [x \in CatIds |-> catServer'[x]]
    BY <1>0, <2>3
  <2> QED
    BY <2>2, <2>3, <2>4, AskingFits DEF CatListInv
<1>4. ASSUME NEW c \in CatIds, DeletedElsewhere(c) PROVE CatListInv'
  <2>1. catServer' = [catServer EXCEPT ![c] = Absent] /\ catDesk' = catDesk
    BY <1>4 DEF DeletedElsewhere
  <2>2. /\ catServer' = [x \in CatIds |-> catServer'[x]]
        /\ \A x \in CatIds : catServer'[x] # Absent => catServer'[x] = catServer[x]
    BY <1>0, <2>1
  <2>3. ReloadFits(catServer', catDesk')
    BY <1>0, <2>1, <2>2 DEF ReloadFits, AgreesWith
  <2> QED
    BY <1>0, <2>1, <2>2, <2>3 DEF CatListInv
<1> QED
  BY <1>1, <1>2, <1>3, <1>4

LEMMA CatListStepInv == CatListInv /\ [CategoryNext]_categoryVars => CatListInv'
<1> SUFFICES ASSUME CatListInv, [CategoryNext]_categoryVars PROVE CatListInv'
  OBVIOUS
<1>1. CASE UNCHANGED categoryVars
  BY <1>1 DEF categoryVars, CatListInv, ReloadFits, AgreesWith
<1>2. CASE \/ \E ok \in BOOLEAN : ListRead(ok)
           \/ ListArrives
  BY <1>2, ReadingKeepsList
<1>3. CASE \/ \E tab \in {"all", "active", "inactive"} : PickTab(tab)
           \/ OpenCreate \/ CloseModal \/ HandleSaveCategory
           \/ \E c \in CatIds : OpenEdit(c) \/ HandleDeleteCategory(c)
           \/ \E p \in CatIds \cup {NoParent}, s \in {"active", "inactive"} : FillCategoryForm(p, s)
           \/ HandleFileChange \/ HandleRemoveImage \/ UploadCategoryImage \/ ImageFails
  BY <1>3, ModalStepsKeepList
<1>4. CASE \/ \E j \in {"save", "delete"}, c \in CatIds : CategoryWritten(j, c) \/ CategoryWriteFails(j, c)
           \/ ImageSettled
           \/ \E c \in CatIds : DeletedElsewhere(c)
  BY <1>4, WritesKeepList
<1> QED
  BY <1>1, <1>2, <1>3, <1>4 DEF CategoryNext

\* While nothing failed and no request overlapped another, the categories and
\* the products an administrator sees at rest are those of the product service.
THEOREM DesksAreServed == BackOfficeSpec => []CalmDesksShowWhatIsServed
<1>1. BackOfficeInit => ServedInv /\ CatListInv
  BY ServedInitInv, CatListInitInv DEF BackOfficeInit
<1>2. ServedInv /\ CatListInv /\ [BackOfficeNext]_backOfficeVars => (ServedInv /\ CatListInv)'
  BY DeskSteps, ServedStepInv, CatListStepInv
<1>3. CatListInv => CalmListIsServed
  BY DEF CatListInv, ReloadFits, AgreesWith, CalmListIsServed, Here, NoFetch
<1>4. ServedInv /\ CatListInv => CalmDesksShowWhatIsServed
  BY <1>3, ServedAtRest DEF CalmDesksShowWhatIsServed
<1> QED
  BY <1>1, <1>2, <1>4, PTL DEF BackOfficeSpec

-----------------------------------------------------------------------------
(***************************************************************************)
(* Promotions and coupons: a promotion keeps its number and its status, a  *)
(* coupon that was sent hangs on one that was active when it was picked,   *)
(* and a coupon that was taken in has a code nothing noted or answered yet *)
(* has.                                                                    *)
(***************************************************************************)

\* What a form can send as a coupon.
Coupons == [code : CouponCodes, promotion : 1..MaxPromotions]

\* A promotion with this number exists and is active.
ActiveId(id) == \E p \in promoServer.promotions : p.id = id /\ p.status = "active"
ActiveOnes == {p \in promoServer.promotions : p.status = "active"}

NumbersFit(promotions) ==
    /\ IsFiniteSet(promotions)
    /\ \A p \in promotions : p.id \in 1..Cardinality(promotions)
    /\ \A p, q \in promotions : p.id = q.id => p = q

ServerFits ==
    /\ promoServer = [promotions |-> promoServer.promotions, coupons |-> promoServer.coupons]
    /\ NumbersFit(promoServer.promotions)

AwayFields(p) == p = [at |-> "away", visit |-> p.visit]
ListFields(p) ==
    p = [at |-> "list", visit |-> p.visit, tab |-> p.tab, filter |-> p.filter,
         listed |-> p.listed, coupons |-> p.coupons]
FormFields(p) ==
    p = [at |-> "new", visit |-> p.visit, kind |-> p.kind, saving |-> p.saving,
         options |-> p.options, window |-> p.window, discount |-> p.discount,
         code |-> p.code, promotion |-> p.promotion]

PageFits(p) ==
    \/ AwayFields(p)
    \/ ListFields(p)
    \/ /\ FormFields(p)
       /\ p.options \subseteq ActiveOnes
       /\ p.code \in CouponCodes \cup {NoCode}
       /\ p.promotion = NoPromotion \/ (p.promotion \in 1..MaxPromotions /\ ActiveId(p.promotion))

CallFields(c) ==
    c = [op |-> c.op, visit |-> c.visit, body |-> c.body, served |-> c.served, found |-> c.found]
CallFits(c) ==
    /\ CallFields(c) /\ c.found \subseteq ActiveOnes
    /\ c.op = "coupon" => c.body \in Coupons /\ ActiveId(c.body.promotion)
    /\ c.op = "coupon" /\ c.served => c.body \in promoServer.coupons

\* A coupon that was taken in and whose answer is on its way.
TakenIn(c) == c \in promoCalls /\ c.op = "coupon" /\ c.served

NotesFit ==
    /\ promoNotes \in Seq(Coupons)
    /\ \A i \in DOMAIN promoNotes :
          /\ promoNotes[i] \in promoServer.coupons /\ ActiveId(promoNotes[i].promotion)
          /\ \A j \in DOMAIN promoNotes : promoNotes[i].code = promoNotes[j].code => i = j

CodesDiffer ==
    /\ \A c, d : TakenIn(c) /\ TakenIn(d) /\ c.body.code = d.body.code => c = d
    /\ \A c : TakenIn(c) => \A i \in DOMAIN promoNotes : promoNotes[i].code # c.body.code

PromotionInv ==
    /\ ServerFits /\ PageFits(promoPage) /\ (\A c \in promoCalls : CallFits(c))
    /\ NotesFit /\ CodesDiffer

LEMMA PromotionInitInv == PromotionInit => PromotionInv
<1> SUFFICES ASSUME PromotionInit PROVE PromotionInv
  OBVIOUS
<1>1. /\ promoServer = [promotions |-> {}, coupons |-> {}] /\ promoNotes = <<>>
      /\ promoPage = PromotionList(0) /\ promoCalls = {AskActive}
  BY DEF PromotionInit
<1>2. ServerFits
  BY <1>1, FS_EmptySet DEF ServerFits, NumbersFit
<1>3. PageFits(promoPage)
  BY <1>1 DEF PageFits, ListFields, PromotionList
<1>4. \A c \in promoCalls : CallFits(c) /\ ~TakenIn(c)
  BY <1>1 DEF CallFits, CallFields, AskActive, TakenIn
<1>5. NotesFit /\ CodesDiffer
  BY <1>1, <1>4 DEF NotesFit, CodesDiffer, TakenIn
<1> QED
  BY <1>2, <1>3, <1>4, <1>5 DEF PromotionInv

\* What a page and calls keep while the promotions and the coupons grow.
LEMMA StillActive ==
  ASSUME promoServer.promotions \subseteq promoServer'.promotions,
         promoServer.coupons \subseteq promoServer'.coupons
  PROVE  /\ \A id : ActiveId(id) => ActiveId(id)'
         /\ ActiveOnes \subseteq ActiveOnes'
         /\ \A p : PageFits(p) => PageFits(p)'
         /\ \A c : CallFits(c) => CallFits(c)'
<1>1. (\A id : ActiveId(id) => ActiveId(id)') /\ ActiveOnes \subseteq ActiveOnes'
  BY DEF ActiveId, ActiveOnes
<1>2. \A p : PageFits(p) => PageFits(p)'
  BY <1>1 DEF PageFits, AwayFields, ListFields, FormFields
<1>3. \A c : CallFits(c) => CallFits(c)'
  BY <1>1 DEF CallFits, CallFields
<1> QED
  BY <1>1, <1>2, <1>3

\* Numbers are given out one after the other.
LEMMA NumbersGrow ==
  ASSUME NEW promotions, NumbersFit(promotions), NEW p, p.id = Cardinality(promotions) + 1
  PROVE  NumbersFit(promotions \cup {p})
<1>1. Cardinality(promotions) \in Nat /\ p \notin promotions
  BY FS_CardinalityType DEF NumbersFit
<1>2. /\ IsFiniteSet(promotions \cup {p})
      /\ Cardinality(promotions \cup {p}) = Cardinality(promotions) + 1
  BY <1>1, FS_AddElement DEF NumbersFit
<1> QED
  BY <1>1, <1>2 DEF NumbersFit

\* A coupon put in front of the notes, of which only the first n are kept.
LEMMA NotesGrow ==
  ASSUME NEW K, NEW k \in K, NEW s \in Seq(K), NEW n \in Nat, n <= Len(s) + 1
  PROVE  LET r == SubSeq(<<k>> \o s, 1, n)
         IN  /\ r \in Seq(K)
             /\ \A i \in DOMAIN r : IF i = 1 THEN r[i] = k ELSE i - 1 \in DOMAIN s /\ r[i] = s[i - 1]
<1> DEFINE t == <<k>> \o s
           r == SubSeq(t, 1, n)
<1>1. t \in Seq(K) /\ Len(t) = Len(s) + 1
  OBVIOUS
<1>2. t[1] = k /\ \A i \in 2..Len(t) : t[i] = s[i - 1]
  OBVIOUS
<1> HIDE DEF t
<1>3. r \in Seq(K) /\ Len(r) = n /\ \A i \in 1..n : r[i] = t[i]
  BY <1>1
<1> HIDE DEF r
<1>4. \A i \in DOMAIN r : IF i = 1 THEN r[i] = k ELSE i - 1 \in DOMAIN s /\ r[i] = s[i - 1]
  BY <1>1, <1>2, <1>3
<1> QED
  BY <1>3, <1>4 DEF r, t

\* A step that notes nothing and takes no coupon in.
LEMMA NothingTakenIn ==
  ASSUME PromotionInv, ServerFits', PageFits(promoPage)', \A c \in promoCalls' : CallFits(c)',
         promoNotes' = promoNotes, \A c : TakenIn(c)' => TakenIn(c),
         promoServer.promotions \subseteq promoServer'.promotions,
         promoServer.coupons \subseteq promoServer'.coupons
  PROVE  PromotionInv'
<1>1. \A id : ActiveId(id) => ActiveId(id)'
  BY StillActive
<1>2. NotesFit'
  BY <1>1 DEF PromotionInv, NotesFit
<1>3. CodesDiffer'
  BY DEF PromotionInv, CodesDiffer
<1> QED
  BY <1>2, <1>3 DEF PromotionInv

\* The same while the service stays as it is.
LEMMA ServiceUntouched ==
  ASSUME PromotionInv, promoServer' = promoServer, PageFits(promoPage'),
         \A c \in promoCalls' : CallFits(c) /\ (c \in promoCalls \/ c.op # "coupon" \/ ~c.served),
         promoNotes' = promoNotes
  PROVE  PromotionInv'
<1>1. /\ \A id : ActiveId(id)' <=> ActiveId(id)
      /\ ActiveOnes' = ActiveOnes
  BY DEF ActiveId, ActiveOnes
<1>2. ServerFits'
  BY DEF PromotionInv, ServerFits
<1>3. PageFits(promoPage)'
  BY <1>1 DEF PageFits
<1>4. \A c \in promoCalls' : CallFits(c)'
  BY <1>1 DEF CallFits
<1>5. \A c : TakenIn(c)' => TakenIn(c)
  BY DEF TakenIn
<1> QED
  BY <1>2, <1>3, <1>4, <1>5, NothingTakenIn

\* The pages that are opened, and the call that asks for them.
LEMMA PagesOpened ==
  /\ \A visit : PageFits(PromotionList(visit)) /\ PageFits(PromoAway(visit))
  /\ \A visit, kind : PageFits(PromotionForm(visit, kind))
  /\ \A visit, op, body : (op = "coupon" => body \in Coupons /\ ActiveId(body.promotion))
        => LET c == [AskActive EXCEPT !.op = op, !.visit = visit, !.body = body]
           IN  CallFits(c) /\ c.op = op /\ ~c.served
<1>1. \A visit : PageFits(PromotionList(visit)) /\ PageFits(PromoAway(visit))
  BY DEF PageFits, PromotionList, PromoAway, ListFields, AwayFields
<1>2. ASSUME NEW visit, NEW kind PROVE PageFits(PromotionForm(visit, kind))
  <2>1. PICK window : window = [starts |-> promoClock, ends |-> LastMoment]
    OBVIOUS
  <2>2. PICK p : p = [at |-> "new", visit |-> visit, kind |-> kind, saving |-> FALSE, options |-> {},
                      window |-> window, discount |-> "none", code |-> NoCode, promotion |-> NoPromotion]
    OBVIOUS
  <2>3. p = PromotionForm(visit, kind)
    BY <2>1, <2>2 DEF PromotionForm
  <2>4. /\ FormFields(p) /\ p.options = {} /\ p.code = NoCode /\ p.promotion = NoPromotion
    BY <2>2 DEF FormFields
  <2> QED
    BY <2>3, <2>4 DEF PageFits
<1>3. ASSUME NEW visit, NEW op, NEW body, op = "coupon" => body \in Coupons /\ ActiveId(body.promotion)
      PROVE  LET c == [AskActive EXCEPT !.op = op, !.visit = visit, !.body = body]
             IN  CallFits(c) /\ c.op = op /\ ~c.served
  <2>1. PICK c : c = [AskActive EXCEPT !.op = op, !.visit = visit, !.body = body]
    OBVIOUS
  <2>2. c = [op |-> op, visit |-> visit, body |-> body, served |-> FALSE, found |-> {}]
    BY <2>1 DEF AskActive
  <2>3. CallFits(c)
    BY <1>3, <2>2 DEF CallFits, CallFields
  <2>4. c.op = op /\ ~c.served
    BY <2>2
  <2> QED
    BY <2>1, <2>3, <2>4
<1> QED
  BY <1>1, <1>2, <1>3

\* Pages are opened, left and filtered.
LEMMA BrowsingKeepsNotes ==
  ASSUME PromotionInv,
         \/ OpenPromotions \/ LeavePromotions \/ PromoTick
         \/ \E kind : OpenNewPromotion(kind)
         \/ \E tab : PickPromotionTab(tab)
         \/ \E s : PickPromotionFilter(s)
  PROVE  PromotionInv'
<1>0. PageFits(promoPage) /\ \A c \in promoCalls : CallFits(c)
  BY DEF PromotionInv
<1>1. promoServer' = promoServer /\ promoNotes' = promoNotes
  BY DEF OpenPromotions, OpenNewPromotion, OpenPromotionPage, LeavePromotions, PromoTick,
     PickPromotionTab, PickPromotionFilter
<1>2. CASE OpenPromotions \/ \E kind : OpenNewPromotion(kind)
  <2>1. PICK page : OpenPromotionPage(page) /\ PageFits(page)
    BY <1>2, PagesOpened DEF OpenPromotions, OpenNewPromotion
  <2>2. PICK c : /\ c = [AskActive EXCEPT !.op = "active", !.visit = promoPage'.visit, !.body = NoPromotion]
                 /\ promoCalls' = promoCalls \cup {c}
    BY <2>1 DEF OpenPromotionPage, PromoCalling
  <2>3. CallFits(c) /\ ~c.served
    BY <2>2, PagesOpened
  <2>4. promoPage' = page
    BY <2>1 DEF OpenPromotionPage
  <2> QED
    BY <1>0, <1>1, <2>1, <2>2, <2>3, <2>4, ServiceUntouched
<1>3. CASE LeavePromotions
  <2>1. promoPage' = PromoAway(promoPage.visit) /\ promoCalls' = promoCalls
    BY <1>3 DEF LeavePromotions
  <2> QED
    BY <1>0, <1>1, <2>1, PagesOpened, ServiceUntouched
<1>4. CASE PromoTick
  <2>1. promoPage' = promoPage /\ promoCalls' = promoCalls
    BY <1>4 DEF PromoTick
  <2> QED
    BY <1>0, <1>1, <2>1, ServiceUntouched
<1>5. CASE (\E tab : PickPromotionTab(tab)) \/ (\E s : PickPromotionFilter(s))
  <2>1. /\ promoPage.at = "list" /\ promoCalls' = promoCalls
        /\ \/ \E tab : promoPage' = [promoPage EXCEPT !.tab = tab]
           \/ \E s : promoPage' = [promoPage EXCEPT !.filter = s]
    BY <1>5 DEF PickPromotionTab, PickPromotionFilter
  <2>2. ListFields(promoPage)
    BY <1>0, <2>1 DEF PageFits, AwayFields, FormFields
  <2>3. ListFields(promoPage')
    BY <2>1, <2>2 DEF ListFields
  <2> QED
    BY <1>0, <1>1, <2>1, <2>3, ServiceUntouched DEF PageFits
<1> QED
  BY <1>2, <1>3, <1>4, <1>5

\* A form that is being sent, or may be sent again.
LEMMA FormSent ==
  ASSUME NEW p, FormFields(p), NEW saving, NEW q, q = [p EXCEPT !.saving = saving]
  PROVE  FormFields(q) /\ q.options = p.options /\ q.code = p.code /\ q.promotion = p.promotion
BY DEF FormFields

\* The form is filled and sent.
LEMMA FormKeepsNotes ==
  ASSUME PromotionInv,
         \/ SwitchKind \/ SubmitPromotion
         \/ \E w, d : PromotionFields(w, d)
         \/ \E code \in CouponCodes, p \in 1..MaxPromotions : CouponFields(code, p)
  PROVE  PromotionInv'
<1>0. PageFits(promoPage) /\ \A c \in promoCalls : CallFits(c)
  BY DEF PromotionInv
<1>1. promoServer' = promoServer /\ promoNotes' = promoNotes /\ promoPage.at = "new"
  BY DEF SwitchKind, SubmitPromotion, PromotionFields, CouponFields, OnPromotionForm
<1>2. /\ FormFields(promoPage) /\ promoPage.options \subseteq ActiveOnes
      /\ promoPage.code \in CouponCodes \cup {NoCode}
      /\ promoPage.promotion = NoPromotion \/ (promoPage.promotion \in 1..MaxPromotions /\ ActiveId(promoPage.promotion))
  BY <1>0, <1>1 DEF PageFits, AwayFields, ListFields
<1>a. FormFields(promoPage)
  BY <1>2
<1>3. CASE SwitchKind \/ \E w, d : PromotionFields(w, d)
  <2>1. /\ promoCalls' = promoCalls
        /\ \E kind, w, d : promoPage' = [promoPage EXCEPT !.kind = kind, !.window = w, !.discount = d]
    <3>1. CASE SwitchKind
      <4>1. PICK kind : kind = IF promoPage.kind = "coupon" THEN "promotion" ELSE "coupon"
        OBVIOUS
      <4>2. PICK w, d : w = promoPage.window /\ d = promoPage.discount
        OBVIOUS
      <4>3. promoPage' = [promoPage EXCEPT !.kind = kind, !.window = w, !.discount = d]
        BY <1>a, <3>1, <4>1, <4>2 DEF SwitchKind, FormFields
      <4> QED
        BY <3>1, <4>3 DEF SwitchKind, OnPromotionForm
    <3>2. CASE \E w, d : PromotionFields(w, d)
      <4>1. PICK w, d : PromotionFields(w, d)
        BY <3>2
      <4>2. PICK kind : kind = promoPage.kind
        OBVIOUS
      <4>3. promoPage' = [promoPage EXCEPT !.kind = kind, !.window = w, !.discount = d]
        BY <1>a, <4>1, <4>2 DEF PromotionFields, FormFields
      <4>4. promoCalls' = promoCalls
        BY <4>1 DEF PromotionFields, OnPromotionForm
      <4> QED
        BY <4>3, <4>4
    <3> QED
      BY <1>3, <3>1, <3>2
  <2>a. PICK kind, w, d : promoPage' = [promoPage EXCEPT !.kind = kind, !.window = w, !.discount = d]
    BY <2>1
  <2>2. /\ FormFields(promoPage') /\ promoPage'.options = promoPage.options
        /\ promoPage'.code = promoPage.code /\ promoPage'.promotion = promoPage.promotion
    <3>1. PICK r, s : r = [promoPage EXCEPT !.kind = kind] /\ s = [r EXCEPT !.window = w]
      OBVIOUS
    <3>2. promoPage' = [s EXCEPT !.discount = d]
      BY <2>a, <3>1
    <3>3. /\ FormFields(r) /\ r.options = promoPage.options
          /\ r.code = promoPage.code /\ r.promotion = promoPage.promotion
      BY ONLY <1>a, <3>1 DEF FormFields
    <3>4. FormFields(s) /\ s.options = r.options /\ s.code = r.code /\ s.promotion = r.promotion
      BY ONLY <3>1, <3>3 DEF FormFields
    <3>5. /\ FormFields(promoPage') /\ promoPage'.options = s.options
          /\ promoPage'.code = s.code /\ promoPage'.promotion = s.promotion
      BY ONLY <3>2, <3>4 DEF FormFields
    <3> QED
      BY <3>3, <3>4, <3>5
  <2>3. PageFits(promoPage')
    BY <1>2, <2>2 DEF PageFits
  <2> QED
    BY <1>0, <1>1, <2>1, <2>3, ServiceUntouched
<1>4. CASE \E code \in CouponCodes, p \in 1..MaxPromotions : CouponFields(code, p)
  <2>1. PICK code \in CouponCodes, p \in 1..MaxPromotions : CouponFields(code, p)
    BY <1>4
  <2>2. /\ promoPage' = [promoPage EXCEPT !.code = code, !.promotion = p] /\ promoCalls' = promoCalls
        /\ p \in {q.id : q \in promoPage.options}
    BY <2>1 DEF CouponFields, OnPromotionForm
  <2>3. ActiveId(p)
    BY <1>2, <2>2 DEF ActiveOnes, ActiveId
  <2>4. /\ FormFields(promoPage') /\ promoPage'.options = promoPage.options
        /\ promoPage'.code = code /\ promoPage'.promotion = p
    <3>1. PICK r : r = [promoPage EXCEPT !.code = code]
      OBVIOUS
    <3>2. promoPage' = [r EXCEPT !.promotion = p]
      BY <2>2, <3>1
    <3>3. FormFields(r) /\ r.options = promoPage.options /\ r.code = code
      BY ONLY <1>a, <3>1 DEF FormFields
    <3>4. /\ FormFields(promoPage') /\ promoPage'.options = r.options
          /\ promoPage'.code = r.code /\ promoPage'.promotion = p
      BY ONLY <3>2, <3>3 DEF FormFields
    <3> QED
      BY <3>3, <3>4
  <2>5. PageFits(promoPage')
    BY <1>2, <2>3, <2>4 DEF PageFits
  <2> QED
    BY <1>0, <1>1, <2>2, <2>5, ServiceUntouched
<1>5. CASE SubmitPromotion
  <2>1. promoPage' = [promoPage EXCEPT !.saving = TRUE]
    BY <1>5 DEF SubmitPromotion
  <2>2. /\ FormFields(promoPage') /\ promoPage'.options = promoPage.options
        /\ promoPage'.code = promoPage.code /\ promoPage'.promotion = promoPage.promotion
    BY ONLY <1>a, <2>1, FormSent
  <2>3. PageFits(promoPage')
    BY <1>2, <2>2 DEF PageFits
  <2>4. CouponReady => CouponPayload \in Coupons /\ ActiveId(CouponPayload.promotion)
    BY <1>2 DEF CouponReady, CouponPayload, Coupons
  <2>5. PICK op, body : PromoCalling(op, body) /\ (op = "coupon" => body \in Coupons /\ ActiveId(body.promotion))
    BY <1>5, <2>4 DEF SubmitPromotion
  <2>6. PICK c : /\ c = [AskActive EXCEPT !.op = op, !.visit = promoPage'.visit, !.body = body]
                 /\ promoCalls' = promoCalls \cup {c}
    BY <2>5 DEF PromoCalling
  <2>7. CallFits(c) /\ ~c.served
    BY <2>5, <2>6, PagesOpened
  <2> QED
    BY <1>0, <1>1, <2>3, <2>6, <2>7, ServiceUntouched
<1> QED
  BY <1>3, <1>4, <1>5

\* What a page shows of an answer, and a form that may be sent again.
LEMMA AnswersShown ==
  ASSUME PageFits(promoPage), promoPage.at # "away"
  PROVE  /\ \A found : found \subseteq ActiveOnes => PageFits(PromotionsLoaded(found))
         /\ PageFits([promoPage EXCEPT !.saving = FALSE])
<1>1. ListFields(promoPage) \/ FormFields(promoPage)
  BY DEF PageFits, AwayFields
<1>2. ASSUME NEW found, found \subseteq ActiveOnes PROVE PageFits(PromotionsLoaded(found))
  <2>1. CASE promoPage.at = "list"
    <3>1. PICK q : q = [promoPage EXCEPT !.listed = found]
      OBVIOUS
    <3>2. ListFields(promoPage)
      BY <1>1, <2>1 DEF FormFields
    <3>3. ListFields(q)
      BY ONLY <3>1, <3>2 DEF ListFields
    <3> QED
      BY <2>1, <3>1, <3>3 DEF PageFits, PromotionsLoaded
  <2>2. CASE promoPage.at # "list"
    <3>1. PICK q : q = [promoPage EXCEPT !.options = found]
      OBVIOUS
    <3>2. FormFields(promoPage)
      BY <1>1, <2>2 DEF ListFields
    <3>3. FormFields(q) /\ q.options = found /\ q.code = promoPage.code /\ q.promotion = promoPage.promotion
      BY ONLY <3>1, <3>2 DEF FormFields
    <3>4. PageFits(q)
      BY <1>2, <2>2, <3>2, <3>3 DEF PageFits, AwayFields, ListFields
    <3> QED
      BY <2>2, <3>1, <3>4 DEF PromotionsLoaded
  <2> QED
    BY <2>1, <2>2
<1>3. PageFits([promoPage EXCEPT !.saving = FALSE])
  <2>1. PICK q : q = [promoPage EXCEPT !.saving = FALSE]
    OBVIOUS
  <2>2. CASE ListFields(promoPage)
    <3>1. ListFields(q)
      BY ONLY <2>1, <2>2 DEF ListFields
    <3> QED
      BY <2>1, <3>1 DEF PageFits
  <2>3. CASE FormFields(promoPage)
    <3>1. /\ FormFields(q) /\ q.options = promoPage.options /\ q.code = promoPage.code
          /\ q.promotion = promoPage.promotion
      BY ONLY <2>1, <2>3, FormSent
    <3>2. PageFits(q)
      BY <2>3, <3>1 DEF PageFits, AwayFields, ListFields, FormFields
    <3> QED
      BY <2>1, <3>2
  <2> QED
    BY <1>1, <2>2, <2>3
<1> QED
  BY <1>2, <1>3

\* The active promotions are asked for, and a call fails.
LEMMA AskingKeepsNotes ==
  ASSUME PromotionInv, NEW c, ServeActive(c) \/ ActiveAnswered(c) \/ PromotionCallFails(c)
  PROVE  PromotionInv'
<1>0. PageFits(promoPage) /\ (\A d \in promoCalls : CallFits(d)) /\ c \in promoCalls
  BY DEF PromotionInv, ServeActive, ActiveAnswered, PromotionCallFails
<1>1. promoServer' = promoServer /\ promoNotes' = promoNotes
  BY DEF ServeActive, ActiveAnswered, PromotionCallFails
<1>2. CASE ServeActive(c)
  <2>1. PICK d : d = [c EXCEPT !.served = TRUE, !.found = ActiveAtService]
    OBVIOUS
  <2>2. CallFields(c)
    BY <1>0 DEF CallFits
  <2>3. d = [op |-> c.op, visit |-> c.visit, body |-> c.body, served |-> TRUE, found |-> ActiveAtService]
    BY <2>1, <2>2 DEF CallFields
  <2>4. ActiveAtService \subseteq ActiveOnes
    BY DEF ActiveAtService, ActiveOnes
  <2>5. c.op = "active" /\ promoCalls' = (promoCalls \ {c}) \cup {d} /\ promoPage' = promoPage
    BY <1>2, <2>1 DEF ServeActive
  <2>6. CallFits(d) /\ d.op # "coupon"
    BY <2>3, <2>4, <2>5 DEF CallFits, CallFields
  <2> QED
    BY <1>0, <1>1, <2>5, <2>6, ServiceUntouched
<1>3. CASE ActiveAnswered(c)
  <2>1. /\ promoCalls' = promoCalls \ {c}
        /\ promoPage' = IF Answers(c) THEN PromotionsLoaded(c.found) ELSE promoPage
    BY <1>3 DEF ActiveAnswered
  <2>2. c.found \subseteq ActiveOnes
    BY <1>0 DEF CallFits
  <2>3. PageFits(promoPage')
    BY <1>0, <2>1, <2>2, AnswersShown DEF Answers
  <2> QED
    BY <1>0, <1>1, <2>1, <2>3, ServiceUntouched
<1>4. CASE PromotionCallFails(c)
  <2>1. /\ promoCalls' = promoCalls \ {c}
        /\ \/ promoPage' = promoPage
           \/ Answers(c) /\ promoPage' = PromotionsLoaded({})
           \/ Answers(c) /\ promoPage' = [promoPage EXCEPT !.saving = FALSE]
    <3>1. promoCalls' = promoCalls \ {c}
      BY <1>4 DEF PromotionCallFails
    <3>2. CASE ~Answers(c)
      BY <1>4, <3>1, <3>2 DEF PromotionCallFails
    <3>3. CASE Answers(c) /\ c.op = "active"
      BY <1>4, <3>1, <3>3 DEF PromotionCallFails
    <3>4. CASE Answers(c) /\ c.op # "active"
      BY <1>4, <3>1, <3>4 DEF PromotionCallFails
    <3> QED
      BY <3>2, <3>3, <3>4
  <2>2. PageFits(promoPage')
    BY <1>0, <2>1, AnswersShown DEF Answers
  <2> QED
    BY <1>0, <1>1, <2>1, <2>2, ServiceUntouched
<1> QED
  BY <1>2, <1>3, <1>4

\* Promotions and coupons are created.
LEMMA CreatingKeepsNotes ==
  ASSUME PromotionInv
  PROVE  /\ \A c : ServePromotion(c) => PromotionInv'
         /\ \A c : ServeCoupon(c) => PromotionInv'
         /\ \A code, p : CouponElsewhere(code, p) => PromotionInv'
<1> DEFINE promotions == promoServer.promotions
           coupons == promoServer.coupons
<1>0. /\ PageFits(promoPage) /\ (\A d \in promoCalls : CallFits(d))
      /\ ServerFits /\ NotesFit /\ CodesDiffer
  BY DEF PromotionInv
<1>1. ASSUME NEW c, ServePromotion(c) PROVE PromotionInv'
  <2>1. PICK p, d : p = Created(c.body) /\ d = [c EXCEPT !.served = TRUE]
    OBVIOUS
  <2>2. /\ promoServer' = [promoServer EXCEPT !.promotions = promotions \cup {p}]
        /\ promoCalls' = (promoCalls \ {c}) \cup {d}
        /\ promoPage' = promoPage /\ promoNotes' = promoNotes /\ c.op = "promotion" /\ c \in promoCalls
    BY <1>1, <2>1 DEF ServePromotion
  <2>3. promoServer' = [promotions |-> promotions \cup {p}, coupons |-> coupons]
    BY <1>0, <2>2 DEF ServerFits
  <2>4. p.id = Cardinality(promotions) + 1
    BY <2>1 DEF Created
  <2>5. ServerFits'
    BY <1>0, <2>3, <2>4, NumbersGrow DEF ServerFits
  <2>6. promotions \subseteq promoServer'.promotions /\ coupons \subseteq promoServer'.coupons
    BY <2>3
  <2>7. d = [op |-> c.op, visit |-> c.visit, body |-> c.body, served |-> TRUE, found |-> c.found]
    <3>1. CallFields(c)
      BY <1>0, <2>2 DEF CallFits
    <3> QED
      BY ONLY <2>1, <2>2, <3>1 DEF CallFields
  <2>8. CallFits(d) /\ d.op # "coupon"
    BY <1>0, <2>2, <2>7 DEF CallFits, CallFields
  <2>9. PageFits(promoPage)' /\ \A e \in promoCalls' : CallFits(e)'
    BY <1>0, <2>2, <2>6, <2>8, StillActive
  <2>10. \A e : TakenIn(e)' => TakenIn(e)
    BY <2>2, <2>8 DEF TakenIn
  <2> QED
    BY <2>2, <2>5, <2>6, <2>9, <2>10, NothingTakenIn
<1>2. ASSUME NEW c, ServeCoupon(c) PROVE PromotionInv'
  <2>1. PICK d : d = [c EXCEPT !.served = TRUE]
    OBVIOUS
  <2>2. /\ promoServer' = [promoServer EXCEPT !.coupons = coupons \cup {c.body}]
        /\ promoCalls' = (promoCalls \ {c}) \cup {d} /\ c.body.code \notin TakenCodes
        /\ promoPage' = promoPage /\ promoNotes' = promoNotes /\ c.op = "coupon" /\ c \in promoCalls
    BY <1>2, <2>1 DEF ServeCoupon
  <2>3. promoServer' = [promotions |-> promotions, coupons |-> coupons \cup {c.body}]
    BY <1>0, <2>2 DEF ServerFits
  <2>4. /\ promoServer'.promotions = promotions /\ promoServer'.coupons = coupons \cup {c.body}
    BY <2>3
  <2>5. ServerFits'
    BY <1>0, <2>3, <2>4 DEF ServerFits
  <2>6. d = [op |-> "coupon", visit |-> c.visit, body |-> c.body, served |-> TRUE, found |-> c.found]
    <3>1. CallFields(c)
      BY <1>0, <2>2 DEF CallFits
    <3> QED
      BY ONLY <2>1, <2>2, <3>1 DEF CallFields
  <2>7. /\ CallFits(c) /\ c.body \in Coupons /\ ActiveId(c.body.promotion) /\ c.found \subseteq ActiveOnes
    BY <1>0, <2>2 DEF CallFits
  <2>8. (\A id : ActiveId(id) => ActiveId(id)') /\ ActiveOnes \subseteq ActiveOnes'
        /\ (PageFits(promoPage) => PageFits(promoPage)') /\ \A e : CallFits(e) => CallFits(e)'
    BY <2>2, <2>4, StillActive
  <2>9. CallFits(d)'
    BY <2>4, <2>6, <2>7, <2>8 DEF CallFits, CallFields
  <2>10. PageFits(promoPage)' /\ \A e \in promoCalls' : CallFits(e)'
    BY <1>0, <2>2, <2>8, <2>9
  <2>11. NotesFit'
    BY <1>0, <2>2, <2>4, <2>8 DEF NotesFit
  <2>12. \A k \in coupons : k.code # d.body.code
    BY <2>2, <2>6 DEF TakenCodes
  <2>13. \A e : TakenIn(e)' => e = d \/ TakenIn(e)
    BY <2>2 DEF TakenIn
  <2>14. \A e : TakenIn(e) => e.body.code # d.body.code
    BY <1>0, <2>12 DEF TakenIn, CallFits
  <2>15. \A i \in DOMAIN promoNotes : promoNotes[i].code # d.body.code
    BY <1>0, <2>12 DEF NotesFit
  <2>16. CodesDiffer'
    BY <1>0, <2>2, <2>13, <2>14, <2>15 DEF CodesDiffer
  <2> QED
    BY <2>5, <2>10, <2>11, <2>16 DEF PromotionInv
<1>3. ASSUME NEW code, NEW p, CouponElsewhere(code, p) PROVE PromotionInv'
  <2>1. PICK k : k = [code |-> code, promotion |-> p]
    OBVIOUS
  <2>2. /\ promoServer' = [promoServer EXCEPT !.coupons = coupons \cup {k}]
        /\ promoPage' = promoPage /\ promoNotes' = promoNotes /\ promoCalls' = promoCalls
    BY <1>3, <2>1 DEF CouponElsewhere
  <2>3. promoServer' = [promotions |-> promotions, coupons |-> coupons \cup {k}]
    BY <1>0, <2>2 DEF ServerFits
  <2>4. /\ promoServer'.promotions = promotions /\ promoServer'.coupons = coupons \cup {k}
    BY <2>3
  <2>5. ServerFits'
    BY <1>0, <2>3, <2>4 DEF ServerFits
  <2>6. PageFits(promoPage)' /\ \A e \in promoCalls' : CallFits(e)'
    BY <1>0, <2>2, <2>4, StillActive
  <2>7. \A e : TakenIn(e)' => TakenIn(e)
    BY <2>2 DEF TakenIn
  <2> QED
    BY <2>2, <2>4, <2>5, <2>6, <2>7, NothingTakenIn
<1> QED
  BY <1>1, <1>2, <1>3

\* An answer notes its coupon and goes back to the list.
LEMMA AnswerKeepsNotes ==
  ASSUME PromotionInv, NEW c, CreationAnswered(c)
  PROVE  PromotionInv'
<1>0. /\ PageFits(promoPage) /\ (\A d \in promoCalls : CallFits(d))
      /\ ServerFits /\ NotesFit /\ CodesDiffer /\ c \in promoCalls /\ c.served
  BY DEF PromotionInv, CreationAnswered
<1>1. promoServer' = promoServer
  BY DEF CreationAnswered
<1>2. /\ \A id : ActiveId(id)' <=> ActiveId(id)
      /\ ActiveOnes' = ActiveOnes
  BY <1>1 DEF ActiveId, ActiveOnes
<1>3. PageFits(promoPage')
  <2>1. CASE promoPage.at = "list"
    BY <1>0, <2>1 DEF CreationAnswered, BackToPromotions
  <2>2. CASE promoPage.at # "list"
    <3>1. PICK p, q : p = PromotionList(promoPage.visit + 1) /\ q = [p EXCEPT !.coupons = promoNotes']
      OBVIOUS
    <3>2. ListFields(p)
      BY <3>1 DEF PromotionList, ListFields
    <3>3. ListFields(q)
      BY ONLY <3>1, <3>2 DEF ListFields
    <3> QED
      BY <2>2, <3>1, <3>3 DEF CreationAnswered, BackToPromotions, PageFits
  <2> QED
    BY <2>1, <2>2
<1>4. \A d \in promoCalls' : CallFits(d) /\ (TakenIn(d)' => d # c /\ TakenIn(d))
  <2>1. PICK a : /\ a = [AskActive EXCEPT !.visit = promoPage'.visit]
                 /\ \/ promoCalls' = promoCalls \ {c}
                    \/ promoCalls' = (promoCalls \ {c}) \cup {a}
    BY DEF CreationAnswered, BackToPromotions
  <2>2. a = [op |-> "active", visit |-> promoPage'.visit, body |-> NoPromotion, served |-> FALSE, found |-> {}]
    BY <2>1 DEF AskActive
  <2>3. CallFits(a) /\ ~a.served
    BY <2>2 DEF CallFits, CallFields
  <2> QED
    BY <1>0, <2>1, <2>3 DEF TakenIn
<1>5. PageFits(promoPage)' /\ \A d \in promoCalls' : CallFits(d)'
  BY <1>1, <1>2, <1>3, <1>4 DEF PageFits, CallFits
<1>6. ServerFits'
  BY <1>0, <1>1 DEF ServerFits
<1>7. \A d : TakenIn(d)' => d # c /\ TakenIn(d)
  BY <1>4 DEF TakenIn
<1>8. CASE c.op # "coupon"
  <2>1. promoNotes' = promoNotes
    BY <1>8 DEF CreationAnswered
  <2> QED
    BY <1>1, <1>5, <1>6, <1>7, <2>1, NothingTakenIn
<1>9. CASE c.op = "coupon"
  <2> DEFINE k == c.body
             n == IF Len(promoNotes) < NotedLimit THEN Len(promoNotes) + 1 ELSE NotedLimit
  <2>1. /\ TakenIn(c) /\ k \in Coupons /\ ActiveId(k.promotion) /\ k \in promoServer.coupons
    BY <1>0, <1>9 DEF TakenIn, CallFits
  <2>2. promoNotes \in Seq(Coupons) /\ NotedLimit \in Nat
    BY <1>0, PromotionAssumption DEF NotesFit
  <2>3. n \in Nat /\ n <= Len(promoNotes) + 1
    BY <2>2
  <2>4. promoNotes' = SubSeq(<<k>> \o promoNotes, 1, n)
    BY <1>9 DEF CreationAnswered, NoteCoupon
  <2> HIDE DEF n
  <2>5. /\ promoNotes' \in Seq(Coupons)
        /\ \A i \in DOMAIN promoNotes' :
              IF i = 1 THEN promoNotes'[i] = k
              ELSE i - 1 \in DOMAIN promoNotes /\ promoNotes'[i] = promoNotes[i - 1]
    BY <2>1, <2>2, <2>3, <2>4, NotesGrow
  <2>6. \A i \in DOMAIN promoNotes : promoNotes[i].code # k.code
    BY <1>0, <2>1 DEF CodesDiffer
  <2>7. \A i \in DOMAIN promoNotes' :
          promoNotes'[i] \in promoServer.coupons /\ ActiveId(promoNotes'[i].promotion)
    BY <1>0, <2>1, <2>5 DEF NotesFit
  <2>8. \A i \in DOMAIN promoNotes' : i \in Int
    BY <2>5
  <2>9. ASSUME NEW i \in DOMAIN promoNotes', NEW j \in DOMAIN promoNotes',
               promoNotes'[i].code = promoNotes'[j].code
        PROVE  i = j
    <3>1. CASE i = 1 \/ j = 1
      BY <2>5, <2>6, <2>9, <3>1
    <3>2. CASE i # 1 /\ j # 1
      <4>1. i - 1 \in DOMAIN promoNotes /\ j - 1 \in DOMAIN promoNotes
            /\ promoNotes[i - 1].code = promoNotes[j - 1].code
        BY <2>5, <2>9, <3>2
      <4>2. i - 1 = j - 1
        BY <1>0, <4>1 DEF NotesFit
      <4> QED
        BY <2>8, <4>2
    <3> QED
      BY <3>1, <3>2
  <2>10. NotesFit'
    BY <1>1, <1>2, <2>5, <2>7, <2>9 DEF NotesFit
  <2>11. \A d : TakenIn(d)' => d.body.code # k.code
    BY <1>0, <1>7, <2>1 DEF CodesDiffer
  <2>12. \A d : TakenIn(d)' => \A i \in DOMAIN promoNotes' : promoNotes'[i].code # d.body.code
    BY <1>0, <1>7, <2>5, <2>11 DEF CodesDiffer
  <2>13. CodesDiffer'
    BY <1>0, <1>7, <2>12 DEF CodesDiffer
  <2> QED
    BY <1>5, <1>6, <2>10, <2>13 DEF PromotionInv
<1> QED
  BY <1>8, <1>9

LEMMA PromotionStepInv == PromotionInv /\ [PromotionNext]_promotionVars => PromotionInv'
<1> SUFFICES ASSUME PromotionInv, [PromotionNext]_promotionVars PROVE PromotionInv'
  OBVIOUS
<1>1. CASE UNCHANGED promotionVars
  <2>1. /\ promoServer' = promoServer /\ promoPage' = promoPage /\ promoCalls' = promoCalls
        /\ promoNotes' = promoNotes
    BY <1>1 DEF promotionVars
  <2> QED
    BY <2>1, ServiceUntouched DEF PromotionInv
<1>2. CASE \/ OpenPromotions \/ LeavePromotions \/ PromoTick
           \/ \E kind \in {"promotion", "coupon"} : OpenNewPromotion(kind)
           \/ \E tab \in {"promotions", "coupons"} : PickPromotionTab(tab)
           \/ \E s \in {"", "active", "scheduled", "expired"} : PickPromotionFilter(s)
  BY <1>2, BrowsingKeepsNotes
<1>3. CASE \/ SwitchKind \/ SubmitPromotion
           \/ \E w \in PromoWindows, d \in Discounts : PromotionFields(w, d)
           \/ \E code \in CouponCodes, p \in 1..MaxPromotions : CouponFields(code, p)
  BY <1>3, FormKeepsNotes
<1>4. CASE \/ \E code \in CouponCodes, p \in 1..MaxPromotions : CouponElsewhere(code, p)
           \/ \E c \in promoCalls : \/ ServeActive(c) \/ ServePromotion(c) \/ ServeCoupon(c)
                                    \/ ActiveAnswered(c) \/ CreationAnswered(c) \/ PromotionCallFails(c)
  BY <1>4, AskingKeepsNotes, CreatingKeepsNotes, AnswerKeepsNotes
<1> QED
  BY <1>1, <1>2, <1>3, <1>4 DEF PromotionNext

\* Every coupon noted in the session is one of the service's, noted once, and
\* hangs on a promotion that is active and never was a draft.
THEOREM NotesAreTrue == BackOfficeSpec => []NotedCouponsAreStored
<1>1. PromotionInv => NotedCouponsAreStored
  <2> SUFFICES ASSUME PromotionInv PROVE NotedCouponsAreStored
    OBVIOUS
  <2>1. NotesFit /\ NumbersFit(promoServer.promotions)
    BY DEF PromotionInv, ServerFits
  <2>2. ASSUME NEW i \in DOMAIN promoNotes, NEW p \in promoServer.promotions, p.id = promoNotes[i].promotion
        PROVE  p.status = "active"
    <3>1. PICK q \in promoServer.promotions : q.id = promoNotes[i].promotion /\ q.status = "active"
      BY <2>1 DEF NotesFit, ActiveId
    <3>2. p = q
      BY <2>1, <2>2, <3>1 DEF NumbersFit
    <3> QED
      BY <3>1, <3>2
  <2> QED
    BY <2>1, <2>2 DEF NotesFit, NotedCouponsAreStored
<1>2. BackOfficeInit => PromotionInv
  BY PromotionInitInv DEF BackOfficeInit
<1>3. PromotionInv /\ [BackOfficeNext]_backOfficeVars => PromotionInv'
  BY DeskSteps, PromotionStepInv
<1> QED
  BY <1>1, <1>2, <1>3, PTL DEF BackOfficeSpec

-----------------------------------------------------------------------------
(***************************************************************************)
(* Shop settings: the delivery profiles have ids of their own and one      *)
(* default, wherever they are; and a save that nothing disturbed has       *)
(* stored the documents before the one it is at.                           *)
(***************************************************************************)

IsProfile(p) == p = [id |-> p.id, default |-> p.default, rates |-> p.rates] /\ p.default \in BOOLEAN
ProfilesFit(ps) ==
    /\ IsFiniteSet(ps) /\ \A p \in ps : IsProfile(p)
    /\ \A p, q \in ps : p.id = q.id => p = q
    /\ \E p \in ps : p.default /\ \A q \in ps : q.default => q = p

LEMMA StartProfilesFit == ProfilesFit(DefaultProfiles)
<1>1. PICK p, q : /\ p = [id |-> 1, default |-> TRUE, rates |-> "default"]
                  /\ q = [id |-> 2, default |-> FALSE, rates |-> "default"]
  OBVIOUS
<1>2. DefaultProfiles = {p, q}
  BY <1>1 DEF DefaultProfiles, Profile
<1>3. IsFiniteSet({p}) /\ IsFiniteSet({p} \cup {q})
  BY FS_Singleton, FS_AddElement
<1>a. IsFiniteSet(DefaultProfiles)
  <2>1. {p, q} = {p} \cup {q}
    OBVIOUS
  <2> QED
    BY <1>2, <1>3, <2>1
<1>4. IsProfile(p) /\ IsProfile(q) /\ p.id # q.id /\ p.default /\ ~q.default
  BY <1>1 DEF IsProfile
<1> QED
  BY <1>2, <1>a, <1>4 DEF ProfilesFit

\* A profile that is no default is added under an id of its own.
LEMMA ProfileAdded ==
  ASSUME NEW ps, ProfilesFit(ps), NEW n, \A p \in ps : p.id # n
  PROVE  ProfilesFit(ps \cup {Profile(n, FALSE)})
<1>1. PICK p : p = [id |-> n, default |-> FALSE, rates |-> "default"]
  OBVIOUS
<1>2. IsProfile(p) /\ p.id = n /\ ~p.default /\ Profile(n, FALSE) = p
  BY <1>1 DEF IsProfile, Profile
<1>3. IsFiniteSet(ps \cup {p})
  BY FS_AddElement DEF ProfilesFit
<1>4. \A q, r \in ps \cup {p} : q.id = r.id => q = r
  BY <1>2 DEF ProfilesFit
<1>5. \E q \in ps \cup {p} : q.default /\ \A r \in ps \cup {p} : r.default => r = q
  BY <1>2 DEF ProfilesFit
<1>6. ProfilesFit(ps \cup {p})
  BY <1>2, <1>3, <1>4, <1>5 DEF ProfilesFit
<1> QED
  BY <1>2, <1>6

\* There is such an id as long as there are fewer profiles than allowed.
LEMMA FreeProfileId ==
  ASSUME NEW ps, IsFiniteSet(ps), Cardinality(ps) < MaxProfiles
  PROVE  \E n \in 1..MaxProfiles + 1 : \A p \in ps : p.id # n
<1> DEFINE ids == {p.id : p \in ps}
<1>1. MaxProfiles \in Nat
  BY StoreSettingsAssumption
<1>2. IsFiniteSet(ids) /\ Cardinality(ids) <= Cardinality(ps) /\ Cardinality(ps) \in Nat /\ Cardinality(ids) \in Nat
  <2>1. IsFiniteSet(ids) /\ Cardinality(ids) <= Cardinality(ps)
    <3> DEFINE f == [p \in ps |-> p.id]
    <3>1. f \in Surjection(ps, ids)
      BY DEF Surjection
    <3> QED
      BY <3>1, FS_Surjection
  <2> QED
    BY <2>1, FS_CardinalityType
<1>3. Cardinality(1..MaxProfiles + 1) = MaxProfiles + 1 /\ IsFiniteSet(1..MaxProfiles + 1)
  BY <1>1, FS_Interval
<1>4. ~(1..MaxProfiles + 1 \subseteq ids)
  <2>1. SUFFICES ASSUME 1..MaxProfiles + 1 \in SUBSET ids PROVE FALSE
    OBVIOUS
  <2> HIDE DEF ids
  <2>2. Cardinality(1..MaxProfiles + 1) <= Cardinality(ids)
    BY <1>2, <2>1, FS_Subset
  <2>3. Cardinality(ids) < MaxProfiles
    BY <1>1, <1>2
  <2> QED
    BY <1>1, <1>2, <1>3, <2>2, <2>3
<1> QED
  BY <1>4

\* A profile is edited, made the default or removed.
LEMMA ProfilesEdited ==
  ASSUME NEW ps, ProfilesFit(ps), NEW p \in ps
  PROVE  /\ ProfilesFit((ps \ {p}) \cup {[p EXCEPT !.rates = "typed"]})
         /\ ProfilesFit({[q EXCEPT !.default = q.id = p.id] : q \in ps})
         /\ ~p.default => ProfilesFit(ps \ {p})
<1>0. IsFiniteSet(ps) /\ \A q \in ps : IsProfile(q)
  BY DEF ProfilesFit
<1>a. IsFiniteSet(ps \ {p})
  BY <1>0, FS_RemoveElement
<1>1. ProfilesFit((ps \ {p}) \cup {[p EXCEPT !.rates = "typed"]})
  <2>1. PICK q : q = [p EXCEPT !.rates = "typed"]
    OBVIOUS
  <2>2. IsProfile(q) /\ q.id = p.id /\ q.default = p.default
    BY <1>0, <2>1 DEF IsProfile
  <2> DEFINE new == (ps \ {p}) \cup {q}
  <2>3. IsFiniteSet(new)
    BY <1>a, FS_AddElement
  <2>4. \A r, s \in new : r.id = s.id => r = s
    BY <2>2 DEF ProfilesFit
  <2>5. \E r \in new : r.default /\ \A s \in new : s.default => s = r
    BY <2>2 DEF ProfilesFit
  <2>6. ProfilesFit(new)
    BY <1>0, <2>2, <2>3, <2>4, <2>5 DEF ProfilesFit
  <2> QED
    BY <2>1, <2>6
<1>2. ProfilesFit({[q EXCEPT !.default = q.id = p.id] : q \in ps})
  <2> DEFINE f == [q \in ps |-> [id |-> q.id, default |-> q.id = p.id, rates |-> q.rates]]
             new == {f[q] : q \in ps}
  <2>1. ASSUME NEW q \in ps PROVE [q EXCEPT !.default = q.id = p.id] = f[q]
    <3>1. PICK r : r = [q EXCEPT !.default = q.id = p.id]
      OBVIOUS
    <3>2. r = [id |-> q.id, default |-> q.id = p.id, rates |-> q.rates]
      BY <1>0, <3>1 DEF IsProfile
    <3> QED
      BY <3>1, <3>2
  <2>2. {[q EXCEPT !.default = q.id = p.id] : q \in ps} = new
    <3> DEFINE old == {[q EXCEPT !.default = q.id = p.id] : q \in ps}
    <3> HIDE DEF f
    <3>1. ASSUME NEW r \in old PROVE r \in new
      <4>1. PICK q \in ps : r = [q EXCEPT !.default = q.id = p.id]
        OBVIOUS
      <4>2. r = f[q]
        BY <2>1, <4>1
      <4> QED
        BY <4>2
    <3>2. ASSUME NEW r \in new PROVE r \in old
      <4>1. PICK q \in ps : r = f[q]
        OBVIOUS
      <4>2. r = [q EXCEPT !.default = q.id = p.id]
        BY <2>1, <4>1
      <4> QED
        BY <4>2
    <3>3. old = new
      <4> HIDE DEF old, new
      <4> QED
        BY <3>1, <3>2
    <3> QED
      BY ONLY <3>3 DEF old
  <2>3. \A q \in ps : IsProfile(f[q]) /\ f[q].id = q.id /\ f[q].default = (q.id = p.id)
    BY DEF IsProfile
  <2>4. IsFiniteSet(new)
    <3>1. f \in Surjection(ps, new)
      BY DEF Surjection
    <3> QED
      BY <1>0, <3>1, FS_Surjection
  <2> HIDE DEF f
  <2>5. \A r, s \in new : r.id = s.id => r = s
    BY <2>3 DEF ProfilesFit
  <2>6. f[p] \in new /\ f[p].default /\ \A s \in new : s.default => s = f[p]
    <3>1. f[p] \in new /\ f[p].default = (p.id = p.id)
      BY <2>3
    <3>2. p.id = p.id
      OBVIOUS
    <3>3. f[p].default
      BY <3>1, <3>2
    <3>4. ASSUME NEW s \in new, s.default PROVE s = f[p]
      <4>1. PICK q \in ps : s = f[q]
        OBVIOUS
      <4>2. q.id = p.id
        BY <2>3, <3>4, <4>1
      <4> QED
        BY <4>1, <4>2 DEF ProfilesFit
    <3> QED
      BY <3>1, <3>3, <3>4
  <2>7. ProfilesFit(new)
    BY <2>3, <2>4, <2>5, <2>6 DEF ProfilesFit
  <2> QED
    BY <2>2, <2>7
<1>3. ~p.default => ProfilesFit(ps \ {p})
  BY <1>0, <1>a DEF ProfilesFit
<1> QED
  BY <1>1, <1>2, <1>3

\* The records of the page, of the stores, of the services and of a save.
IsSettingsPage(p) ==
    p = [tab |-> p.tab, load |-> p.load, tenant |-> p.tenant, config |-> p.config,
         local |-> p.local, save |-> p.save, saved |-> p.saved, error |-> p.error,
         clean |-> p.clean]
AreStores(s) == s = [storefront |-> s.storefront, loaded |-> s.loaded, profiles |-> s.profiles]
AreDocuments(d) ==
    d = [tenant |-> d.tenant, config |-> d.config, storefront |-> d.storefront,
         profiles |-> d.profiles]
IsSave(s) ==
    /\ s = [step |-> s.step, tenant |-> s.tenant, config |-> s.config,
            storefront |-> s.storefront, left |-> s.left]
    /\ s.step \in 1..4 /\ s.left \in BOOLEAN

\* A page is only saved, and shows "Saved!", once it has been read.
SettingsPageFits(p) ==
    /\ IsSettingsPage(p) /\ p.saved \in BOOLEAN /\ p.clean \in BOOLEAN
    /\ p.save = NotSaving \/ IsSave(p.save)
    /\ p.saved => p.load > 3
    /\ p.save # NotSaving /\ ~p.save.left => p.load > 3

\* A save in which nobody typed carries what the page shows, and the services
\* hold what it has written so far.
SaveOnItsWay(p, stores, server) ==
    p.clean /\ p.save # NotSaving /\ ~p.save.left =>
        /\ p.save.tenant = p.tenant /\ p.save.config = p.config
        /\ p.save.storefront = stores.storefront
        /\ p.save.step > 1 => server.tenant = p.tenant
        /\ p.save.step > 2 => server.config = p.config
        /\ p.save.step > 3 => server.storefront = stores.storefront

\* "Saved!" is shown of what the services hold.
SavedIsHeld(p, stores, server) ==
    p.saved /\ p.clean /\ p.save = NotSaving =>
        /\ server.tenant = p.tenant /\ server.config = p.config
        /\ server.storefront = stores.storefront /\ server.profiles = stores.profiles

SettingsInv ==
    /\ SettingsPageFits(ssPage) /\ AreStores(ssStores) /\ AreDocuments(ssServer)
    /\ ProfilesFit(ssStores.profiles) /\ ProfilesFit(ssServer.profiles)
    /\ SaveOnItsWay(ssPage, ssStores, ssServer) /\ SavedIsHeld(ssPage, ssStores, ssServer)

\* The order in which the documents are written.
LEMMA SaveOrder ==
    /\ Len(SaveSteps) = 4
    /\ SaveSteps[1] = "tenant" /\ SaveSteps[2] = "config"
    /\ SaveSteps[3] = "storefront" /\ SaveSteps[4] = "profiles"
BY DEF SaveSteps

\* A save is not NotSaving.
LEMMA SaveIsRunning == ASSUME NEW s, IsSave(s) PROVE s # NotSaving
BY DEF IsSave, NotSaving

LEMMA SettingsInitInv == StoreSettingsInit => SettingsInv
<1> SUFFICES ASSUME StoreSettingsInit PROVE SettingsInv
  OBVIOUS
<1>1. SettingsPageFits(ssPage) /\ ~ssPage.saved /\ ssPage.save = NotSaving
  BY DEF StoreSettingsInit, SsFresh, SettingsPageFits, IsSettingsPage
<1>2. /\ AreStores(ssStores) /\ AreDocuments(ssServer)
      /\ ssStores.profiles = DefaultProfiles /\ ssServer.profiles = DefaultProfiles
  BY DEF StoreSettingsInit, AreStores, AreDocuments
<1> QED
  BY <1>1, <1>2, StartProfilesFit DEF SettingsInv, SaveOnItsWay, SavedIsHeld

\* While the page is read nothing is saved from it, and nothing counts as saved.
LEMMA LoadingKeepsSettings ==
  ASSUME SettingsInv, NEW ok \in BOOLEAN,
         TenantLoads(ok) \/ StorefrontLoads(ok) \/ ProfilesLoad(ok)
  PROVE  SettingsInv'
<1>1. SettingsPageFits(ssPage) /\ AreStores(ssStores) /\ ssPage.load \in 1..3
  BY DEF SettingsInv, TenantLoads, StorefrontLoads, ProfilesLoad
<1>2. ~ssPage.saved /\ (ssPage.save # NotSaving => ssPage.save.left)
  BY <1>1 DEF SettingsPageFits
<1>3. /\ IsSettingsPage(ssPage') /\ ssPage'.saved = ssPage.saved
      /\ ssPage'.save = ssPage.save /\ ssPage'.clean = ssPage.clean
  BY <1>1 DEF SettingsPageFits, IsSettingsPage, TenantLoads, StorefrontLoads, ProfilesLoad
<1>4. ssServer' = ssServer /\ AreStores(ssStores')
  BY <1>1 DEF AreStores, TenantLoads, StorefrontLoads, ProfilesLoad
<1>5. ssStores'.profiles \in {ssStores.profiles, ssServer.profiles}
  BY <1>1 DEF AreStores, TenantLoads, StorefrontLoads, ProfilesLoad
<1>6. SettingsPageFits(ssPage')
  BY <1>1, <1>2, <1>3 DEF SettingsPageFits
<1> QED
  BY <1>2, <1>3, <1>4, <1>5, <1>6 DEF SettingsInv, SaveOnItsWay, SavedIsHeld

\* An edit takes "Saved!" away and is remembered of a save that runs.
LEMMA EditKeepsSettings ==
  ASSUME SettingsInv, Settled, ssServer' = ssServer,
         IsSettingsPage(ssPage'), AreStores(ssStores'), ProfilesFit(ssStores'.profiles),
         ssPage'.load = ssPage.load, ssPage'.save = ssPage.save,
         ssPage'.saved = FALSE, ssPage'.clean = (ssPage.clean /\ ~Saving)
  PROVE  SettingsInv'
<1>1. SettingsPageFits(ssPage')
  BY DEF SettingsInv, SettingsPageFits, Settled
<1>2. ~ssPage'.saved /\ ~(ssPage'.clean /\ ssPage'.save # NotSaving)
  BY DEF Saving
<1> QED
  BY <1>1, <1>2 DEF SettingsInv, SaveOnItsWay, SavedIsHeld

\* What Edited does to the page.
LEMMA EditedFits ==
  ASSUME NEW p, IsSettingsPage(p)
  PROVE  /\ IsSettingsPage(Edited(p)) /\ Edited(p).load = p.load /\ Edited(p).save = p.save
         /\ Edited(p).saved = FALSE /\ Edited(p).clean = (p.clean /\ ~Saving)
<1> DEFINE c == p.clean /\ ~Saving
<1>1. PICK q : q = [p EXCEPT !.saved = FALSE, !.clean = c]
  OBVIOUS
<1>2. Edited(p) = q
  BY <1>1 DEF Edited
<1> HIDE DEF c
<1>3. /\ IsSettingsPage(q) /\ q.load = p.load /\ q.save = p.save
      /\ q.saved = FALSE /\ q.clean = c
  BY <1>1 DEF IsSettingsPage
<1> QED
  BY <1>2, <1>3 DEF c

\* The inputs that only change the page.
LEMMA PageInputsKeepSettings ==
  ASSUME SettingsInv,
         \/ \E v \in {"first", "typed"} :
               TypeStoreName(v) \/ UpdateGeneral(v) \/ UpdateBranding(v) \/ ToggleFeature(v)
         \/ \E input \in PaymentInputs \cup ShippingInputs \cup MailInputs \cup SecurityInputs :
               EditLocal(input)
  PROVE  SettingsInv'
<1>1. PICK q : q = Edited(ssPage)
  OBVIOUS
<1>2. /\ IsSettingsPage(q) /\ q.load = ssPage.load /\ q.save = ssPage.save
      /\ q.saved = FALSE /\ q.clean = (ssPage.clean /\ ~Saving)
  BY <1>1, EditedFits DEF SettingsInv, SettingsPageFits
<1>3. /\ Settled /\ ssServer' = ssServer /\ ssStores' = ssStores
      /\ \E v : ssPage' = [q EXCEPT !.tenant = v] \/ ssPage' = [q EXCEPT !.config = v]
                \/ ssPage' = [q EXCEPT !.local = v]
  BY <1>1 DEF TypeStoreName, UpdateGeneral, UpdateBranding, ToggleFeature, EditLocal, EditOn
<1>4. /\ IsSettingsPage(ssPage') /\ ssPage'.load = q.load /\ ssPage'.save = q.save
      /\ ssPage'.saved = q.saved /\ ssPage'.clean = q.clean
  BY ONLY <1>2, <1>3 DEF IsSettingsPage
<1>5. AreStores(ssStores') /\ ProfilesFit(ssStores'.profiles)
  BY <1>3 DEF SettingsInv
<1> QED
  BY <1>2, <1>3, <1>4, <1>5, EditKeepsSettings

\* The storefront tab leaves the profiles alone.
LEMMA StorefrontKeepsSettings ==
  ASSUME SettingsInv, NEW v, EditStorefront(v)
  PROVE  SettingsInv'
<1>1. /\ Settled /\ ssServer' = ssServer /\ ssPage' = Edited(ssPage)
      /\ ssStores' = [ssStores EXCEPT !.storefront = v]
  BY DEF EditStorefront, EditOn
<1>2. AreStores(ssStores') /\ ProfilesFit(ssStores'.profiles)
  BY <1>1 DEF SettingsInv, AreStores
<1>3. IsSettingsPage(ssPage)
  BY DEF SettingsInv, SettingsPageFits
<1> QED
  BY <1>1, <1>2, <1>3, EditedFits, EditKeepsSettings

LEMMA EditProfilesKeepsSettings ==
  ASSUME SettingsInv, NEW ps, ProfilesFit(ps), EditProfiles(ps)
  PROVE  SettingsInv'
<1>1. /\ Settled /\ ssServer' = ssServer /\ ssPage' = Edited(ssPage)
      /\ ssStores' = [ssStores EXCEPT !.profiles = ps]
  BY DEF EditProfiles, EditOn
<1>2. AreStores(ssStores') /\ ssStores'.profiles = ps
  BY <1>1 DEF SettingsInv, AreStores
<1>3. IsSettingsPage(ssPage)
  BY DEF SettingsInv, SettingsPageFits
<1> QED
  BY <1>1, <1>2, <1>3, EditedFits, EditKeepsSettings

\* The sections and banners of the storefront.
LEMMA ListsKeepSettings ==
  ASSUME SettingsInv,
         \/ \E v \in {"first", "typed"} : EditTexts(v)
         \/ AddBanner \/ \E b \in 1..MaxSections : RemoveBanner(b)
         \/ AddSection \/ \E k \in 1..MaxSections : UpdateSection(k) \/ RemoveSection(k)
         \/ \E k \in 1..MaxSections, d \in {-1, 1} : MoveSection(k, d)
  PROVE  SettingsInv'
<1>1. PICK v : EditStorefront(v)
  BY DEF EditTexts, AddBanner, RemoveBanner, AddSection, UpdateSection, RemoveSection,
         MoveSection, EditSections
<1> QED
  BY ONLY SettingsInv, <1>1, StorefrontKeepsSettings

\* The delivery profiles.
LEMMA ProfilesKeepSettings ==
  ASSUME SettingsInv,
         \/ AddProfile
         \/ \E p \in ssStores.profiles : UpdateProfile(p) \/ MakeDefaultProfile(p) \/ RemoveProfile(p)
  PROVE  SettingsInv'
<1>0. ProfilesFit(ssStores.profiles)
  BY DEF SettingsInv
<1>1. CASE AddProfile
  <2> DEFINE id == CHOOSE n \in 1..MaxProfiles + 1 : \A p \in ssStores.profiles : p.id # n
  <2>1. /\ Cardinality(ssStores.profiles) < MaxProfiles
        /\ EditProfiles(ssStores.profiles \cup {Profile(id, FALSE)})
    BY <1>1 DEF AddProfile
  <2>2. \A p \in ssStores.profiles : p.id # id
    BY <1>0, <2>1, FreeProfileId DEF ProfilesFit
  <2> HIDE DEF id
  <2>3. ProfilesFit(ssStores.profiles \cup {Profile(id, FALSE)})
    BY <1>0, <2>2, ProfileAdded
  <2> QED
    BY <2>1, <2>3, EditProfilesKeepsSettings
<1>2. ASSUME NEW p \in ssStores.profiles,
             UpdateProfile(p) \/ MakeDefaultProfile(p) \/ RemoveProfile(p)
      PROVE  SettingsInv'
  <2>1. PICK ps : EditProfiles(ps) /\ ProfilesFit(ps)
    BY <1>0, <1>2, ProfilesEdited DEF UpdateProfile, MakeDefaultProfile, RemoveProfile
  <2> QED
    BY <2>1, EditProfilesKeepsSettings
<1> QED
  BY <1>1, <1>2

\* handleSave: the page, and its storefront, as they are at the click.
LEMMA ClickKeepsSettings ==
  ASSUME SettingsInv, HandleSaveStore
  PROVE  SettingsInv'
<1>1. PICK s : s = [step |-> 1, tenant |-> ssPage.tenant, config |-> ssPage.config,
                    storefront |-> ssStores.storefront, left |-> FALSE]
  OBVIOUS
<1>2. IsSave(s) /\ s.step = 1 /\ ~s.left
      /\ s.tenant = ssPage.tenant /\ s.config = ssPage.config
      /\ s.storefront = ssStores.storefront
  BY <1>1 DEF IsSave
<1>3. ssPage' = [ssPage EXCEPT !.error = FALSE, !.clean = TRUE, !.save = s]
  BY <1>1 DEF HandleSaveStore
<1>4. /\ IsSettingsPage(ssPage') /\ ssPage'.save = s /\ ssPage'.load = ssPage.load
      /\ ssPage'.clean = TRUE /\ ssPage'.saved = ssPage.saved
      /\ ssPage'.tenant = ssPage.tenant /\ ssPage'.config = ssPage.config
  BY <1>3 DEF SettingsInv, SettingsPageFits, IsSettingsPage
<1>5. ssStores' = ssStores /\ ssServer' = ssServer /\ ssPage.load > 3
  BY DEF HandleSaveStore, Settled
<1>6. s # NotSaving
  BY <1>2, SaveIsRunning
<1>7. SettingsPageFits(ssPage')
  BY <1>2, <1>4, <1>5 DEF SettingsInv, SettingsPageFits
<1>8. SaveOnItsWay(ssPage', ssStores', ssServer')
  BY <1>2, <1>4, <1>5 DEF SaveOnItsWay
<1> QED
  BY <1>4, <1>5, <1>6, <1>7, <1>8 DEF SettingsInv, SavedIsHeld

\* What writing a document does to the services.
LEMMA DocumentWritten ==
  ASSUME SettingsInv, Saving, SaveStepStored
  PROVE  /\ AreDocuments(ssServer') /\ ProfilesFit(ssServer'.profiles)
         /\ ssServer'.tenant = IF ssPage.save.step = 1 THEN ssPage.save.tenant ELSE ssServer.tenant
         /\ ssServer'.config = IF ssPage.save.step = 2 THEN ssPage.save.config ELSE ssServer.config
         /\ ssServer'.storefront = IF ssPage.save.step = 3 THEN ssPage.save.storefront
                                   ELSE ssServer.storefront
         /\ ssServer'.profiles = IF ssPage.save.step = 4 THEN ssStores.profiles
                                 ELSE ssServer.profiles
<1>1. IsSave(ssPage.save)
  BY DEF SettingsInv, SettingsPageFits, Saving
<1>2. ssPage.save.step \in 1..4
  BY <1>1 DEF IsSave
<1>3. AreDocuments(ssServer) /\ ProfilesFit(ssStores.profiles) /\ ProfilesFit(ssServer.profiles)
  BY DEF SettingsInv
<1>4. CASE ssPage.save.step = 1
  <2>1. ssServer' = [ssServer EXCEPT !.tenant = ssPage.save.tenant]
    BY <1>4, SaveOrder DEF SaveStepStored
  <2> QED
    BY <1>3, <1>4, <2>1 DEF AreDocuments
<1>5. CASE ssPage.save.step = 2
  <2>1. ssServer' = [ssServer EXCEPT !.config = ssPage.save.config]
    BY <1>5, SaveOrder DEF SaveStepStored
  <2> QED
    BY <1>3, <1>5, <2>1 DEF AreDocuments
<1>6. CASE ssPage.save.step = 3
  <2>1. ssServer' = [ssServer EXCEPT !.storefront = ssPage.save.storefront]
    BY <1>6, SaveOrder DEF SaveStepStored
  <2> QED
    BY <1>3, <1>6, <2>1 DEF AreDocuments
<1>7. CASE ssPage.save.step = 4
  <2>1. ssServer' = [ssServer EXCEPT !.profiles = ssStores.profiles]
    BY <1>7, SaveOrder DEF SaveStepStored
  <2> QED
    BY <1>3, <1>7, <2>1 DEF AreDocuments
<1> QED
  BY <1>2, <1>4, <1>5, <1>6, <1>7

\* The page goes on to the next document, or is done.
LEMMA SaveGoesOn ==
  ASSUME NEW q, SettingsPageFits(ssPage), Saving, q = NextSaveStep
  PROVE  /\ SettingsPageFits(q) /\ q.tenant = ssPage.tenant /\ q.config = ssPage.config
         /\ q.clean = ssPage.clean
         /\ ssPage.save.step < 4 =>
               /\ q.saved = ssPage.saved /\ q.save # NotSaving
               /\ q.save.left = ssPage.save.left /\ q.save.step = ssPage.save.step + 1
               /\ q.save.tenant = ssPage.save.tenant /\ q.save.config = ssPage.save.config
               /\ q.save.storefront = ssPage.save.storefront
         /\ ssPage.save.step = 4 => q.save = NotSaving /\ q.saved = ~ssPage.save.left
<1>1. IsSave(ssPage.save) /\ IsSettingsPage(ssPage)
  BY DEF SettingsPageFits, Saving
<1>2. ssPage.save.step \in 1..4 /\ ssPage.save.left \in BOOLEAN
  BY <1>1 DEF IsSave
<1>3. CASE ssPage.save.step < 4
  <2>1. PICK s : s = [ssPage.save EXCEPT !.step = @ + 1]
    OBVIOUS
  <2>2. q = [ssPage EXCEPT !.save = s]
    BY <1>3, <2>1, SaveOrder DEF NextSaveStep
  <2>3. /\ IsSave(s) /\ s.step = ssPage.save.step + 1 /\ s.left = ssPage.save.left
        /\ s.tenant = ssPage.save.tenant /\ s.config = ssPage.save.config
        /\ s.storefront = ssPage.save.storefront
    BY <1>1, <1>2, <1>3, <2>1 DEF IsSave
  <2>4. /\ IsSettingsPage(q) /\ q.save = s /\ q.load = ssPage.load /\ q.saved = ssPage.saved
        /\ q.clean = ssPage.clean /\ q.tenant = ssPage.tenant /\ q.config = ssPage.config
    BY <1>1, <2>2 DEF IsSettingsPage
  <2>5. s # NotSaving
    BY <2>3, SaveIsRunning
  <2>6. SettingsPageFits(q)
    BY <2>3, <2>4 DEF SettingsPageFits, Saving
  <2> QED
    BY <1>3, <2>3, <2>4, <2>5, <2>6
<1>4. CASE ssPage.save.step = 4
  <2>1. PICK done : done = ~ssPage.save.left
    OBVIOUS
  <2>2. q = [ssPage EXCEPT !.save = NotSaving, !.saved = done]
    BY <1>4, <2>1, SaveOrder DEF NextSaveStep
  <2>3. /\ IsSettingsPage(q) /\ q.save = NotSaving /\ q.load = ssPage.load /\ q.saved = done
        /\ q.clean = ssPage.clean /\ q.tenant = ssPage.tenant /\ q.config = ssPage.config
    BY <1>1, <2>2 DEF IsSettingsPage
  <2>4. SettingsPageFits(q)
    BY <1>2, <2>1, <2>3 DEF SettingsPageFits, Saving
  <2> QED
    BY <1>4, <2>1, <2>3, <2>4
<1> QED
  BY <1>2, <1>3, <1>4

\* A document that is written brings the save one step further.
LEMMA DoneKeepsSettings ==
  ASSUME SettingsInv, SaveStepDone
  PROVE  SettingsInv'
<1>1. Saving /\ SaveStepStored /\ SettingsPageFits(ssPage) /\ AreStores(ssStores)
  BY DEF SaveStepDone, SettingsInv
<1>2. ssPage.save.step \in 1..4 /\ ssPage.save.left \in BOOLEAN
  BY <1>1 DEF SettingsPageFits, Saving, IsSave
<1>3. PICK q : q = ssPage' /\ q = NextSaveStep
  BY DEF SaveStepDone
<1>4. /\ SettingsPageFits(q) /\ q.tenant = ssPage.tenant /\ q.config = ssPage.config
      /\ q.clean = ssPage.clean
      /\ ssPage.save.step < 4 =>
            /\ q.saved = ssPage.saved /\ q.save # NotSaving
            /\ q.save.left = ssPage.save.left /\ q.save.step = ssPage.save.step + 1
            /\ q.save.tenant = ssPage.save.tenant /\ q.save.config = ssPage.save.config
            /\ q.save.storefront = ssPage.save.storefront
      /\ ssPage.save.step = 4 => q.save = NotSaving /\ q.saved = ~ssPage.save.left
  BY <1>1, <1>3, SaveGoesOn
<1>5. /\ AreDocuments(ssServer') /\ ProfilesFit(ssServer'.profiles)
      /\ ssServer'.tenant = IF ssPage.save.step = 1 THEN ssPage.save.tenant ELSE ssServer.tenant
      /\ ssServer'.config = IF ssPage.save.step = 2 THEN ssPage.save.config ELSE ssServer.config
      /\ ssServer'.storefront = IF ssPage.save.step = 3 THEN ssPage.save.storefront
                                ELSE ssServer.storefront
      /\ ssServer'.profiles = IF ssPage.save.step = 4 THEN ssStores.profiles
                              ELSE ssServer.profiles
  BY <1>1, DocumentWritten
<1>6. /\ AreStores(ssStores') /\ ssStores'.profiles = ssStores.profiles
      /\ ssStores'.storefront = IF ssPage.save.step = 3 THEN ssPage.save.storefront
                                ELSE ssStores.storefront
  <2>1. ssStores' = IF ssPage.save.step = 3
                    THEN [ssStores EXCEPT !.storefront = ssPage.save.storefront, !.loaded = TRUE]
                    ELSE ssStores
    BY <1>2, SaveOrder DEF SaveStepDone
  <2> QED
    BY <1>1, <2>1 DEF AreStores
<1>7. SaveOnItsWay(ssPage, ssStores, ssServer) /\ ProfilesFit(ssStores.profiles)
  BY DEF SettingsInv
<1>8. SaveOnItsWay(q, ssStores', ssServer')
  <2>1. SUFFICES ASSUME q.clean, q.save # NotSaving, ~q.save.left
                 PROVE  SaveOnItsWay(q, ssStores', ssServer')
    BY DEF SaveOnItsWay
  <2>2. ssPage.save.step < 4
    BY <1>2, <1>4, <2>1
  <2>3. /\ ssPage.save.tenant = ssPage.tenant /\ ssPage.save.config = ssPage.config
        /\ ssPage.save.storefront = ssStores.storefront
        /\ ssPage.save.step > 1 => ssServer.tenant = ssPage.tenant
        /\ ssPage.save.step > 2 => ssServer.config = ssPage.config
        /\ ssPage.save.step > 3 => ssServer.storefront = ssStores.storefront
    BY <1>1, <1>4, <1>7, <2>1, <2>2 DEF SaveOnItsWay, Saving
  <2> QED
    BY <1>2, <1>4, <1>5, <1>6, <2>2, <2>3 DEF SaveOnItsWay
<1>9. SavedIsHeld(q, ssStores', ssServer')
  <2>1. SUFFICES ASSUME q.saved, q.clean, q.save = NotSaving
                 PROVE  SavedIsHeld(q, ssStores', ssServer')
    BY DEF SavedIsHeld
  <2>2. ssPage.save.step = 4 /\ ~ssPage.save.left
    <3>1. ssPage.save.step = 4
      BY <1>2, <1>4, <2>1
    <3>2. q.saved = ~ssPage.save.left
      BY <1>4, <3>1
    <3> QED
      BY ONLY <2>1, <3>1, <3>2
  <2>3. /\ ssServer.tenant = ssPage.tenant /\ ssServer.config = ssPage.config
        /\ ssServer.storefront = ssStores.storefront
    BY <1>1, <1>4, <1>7, <2>1, <2>2 DEF SaveOnItsWay, Saving
  <2> QED
    BY <1>4, <1>5, <1>6, <2>2, <2>3 DEF SavedIsHeld
<1> QED
  BY <1>3, <1>4, <1>5, <1>6, <1>7, <1>8, <1>9 DEF SettingsInv

\* A failure: that of the profiles counts as done but is remembered.
LEMMA FailureKeepsSettings ==
  ASSUME SettingsInv, NEW written \in BOOLEAN, SaveStepFails(written)
  PROVE  SettingsInv'
<1>1. Saving /\ SettingsPageFits(ssPage) /\ ssStores' = ssStores
  BY DEF SaveStepFails, SettingsInv
<1>2. ssPage.save.step \in 1..4 /\ ssPage.save.left \in BOOLEAN /\ IsSettingsPage(ssPage)
  BY <1>1 DEF SettingsPageFits, Saving, IsSave
<1>3. /\ AreDocuments(ssServer') /\ ProfilesFit(ssServer'.profiles)
      /\ ssPage.save.step = 4 => /\ ssServer'.tenant = ssServer.tenant
                                 /\ ssServer'.config = ssServer.config
                                 /\ ssServer'.storefront = ssServer.storefront
                                 /\ written => ssServer'.profiles = ssStores.profiles
  <2>1. CASE written
    <3>1. SaveStepStored
      BY <2>1 DEF SaveStepFails
    <3> QED
      BY <1>1, <2>1, <3>1, DocumentWritten
  <2>2. CASE ~written
    <3>1. ssServer' = ssServer
      BY <2>2 DEF SaveStepFails
    <3> QED
      BY <2>2, <3>1 DEF SettingsInv
  <2> QED
    BY <2>1, <2>2
<1>4. CASE ssPage.save.step = 4
  <2>1. PICK q : q = NextSaveStep
    OBVIOUS
  <2>2. PICK c : c = (q.clean /\ written)
    OBVIOUS
  <2>3. ssPage' = [q EXCEPT !.clean = c]
    BY <1>4, <2>1, <2>2, SaveOrder DEF SaveStepFails
  <2>4. /\ SettingsPageFits(q) /\ q.tenant = ssPage.tenant /\ q.config = ssPage.config
        /\ q.clean = ssPage.clean /\ q.save = NotSaving /\ q.saved = ~ssPage.save.left
    BY <1>1, <1>4, <2>1, SaveGoesOn
  <2>5. /\ IsSettingsPage(ssPage') /\ ssPage'.clean = c /\ ssPage'.save = q.save
        /\ ssPage'.saved = q.saved /\ ssPage'.load = q.load
        /\ ssPage'.tenant = q.tenant /\ ssPage'.config = q.config
    BY <2>3, <2>4 DEF SettingsPageFits, IsSettingsPage
  <2>6. c \in BOOLEAN
    BY <2>2
  <2>7. SettingsPageFits(ssPage')
    BY <2>4, <2>5, <2>6 DEF SettingsPageFits
  <2>8. SavedIsHeld(ssPage', ssStores', ssServer')
    <3>1. SUFFICES ASSUME ssPage'.saved, c PROVE SavedIsHeld(ssPage', ssStores', ssServer')
      BY <2>5 DEF SavedIsHeld
    <3>2. ssPage.clean /\ written /\ ~ssPage.save.left
      BY <2>2, <2>4, <2>5, <3>1
    <3>3. /\ ssServer.tenant = ssPage.tenant /\ ssServer.config = ssPage.config
          /\ ssServer.storefront = ssStores.storefront
      <4>1. /\ ssPage.save.step > 1 /\ ssPage.save.step > 2 /\ ssPage.save.step > 3
        BY <1>4
      <4> QED
        BY <1>1, <3>2, <4>1 DEF SaveOnItsWay, Saving, SettingsInv
    <3> QED
      BY <1>1, <1>3, <1>4, <2>4, <2>5, <3>2, <3>3 DEF SavedIsHeld
  <2>9. SaveOnItsWay(ssPage', ssStores', ssServer')
    BY <2>4, <2>5 DEF SaveOnItsWay
  <2> QED
    BY <1>1, <1>3, <2>7, <2>8, <2>9 DEF SettingsInv
<1>5. CASE ssPage.save.step # 4
  <2>1. PICK e : e = ~ssPage.save.left
    OBVIOUS
  <2>2. ssPage' = [ssPage EXCEPT !.save = NotSaving, !.error = e, !.clean = FALSE]
    BY <1>2, <1>5, <2>1, SaveOrder DEF SaveStepFails
  <2>3. /\ IsSettingsPage(ssPage') /\ ssPage'.save = NotSaving /\ ssPage'.clean = FALSE
        /\ ssPage'.saved = ssPage.saved /\ ssPage'.load = ssPage.load
    BY <1>2, <2>2 DEF IsSettingsPage
  <2>4. SettingsPageFits(ssPage')
    BY <1>1, <2>3 DEF SettingsPageFits
  <2> QED
    BY <1>1, <1>3, <2>3, <2>4 DEF SettingsInv, SaveOnItsWay, SavedIsHeld
<1> QED
  BY <1>4, <1>5

LEMMA FadingKeepsSettings ==
  ASSUME SettingsInv, SavedFades
  PROVE  SettingsInv'
<1>1. /\ ssPage' = [ssPage EXCEPT !.saved = FALSE]
      /\ ssStores' = ssStores /\ ssServer' = ssServer
  BY DEF SavedFades
<1>2. /\ IsSettingsPage(ssPage') /\ ssPage'.saved = FALSE /\ ssPage'.clean = ssPage.clean
      /\ ssPage'.save = ssPage.save /\ ssPage'.load = ssPage.load
      /\ ssPage'.tenant = ssPage.tenant /\ ssPage'.config = ssPage.config
  BY <1>1 DEF SettingsInv, SettingsPageFits, IsSettingsPage
<1>3. SettingsPageFits(ssPage')
  BY <1>2 DEF SettingsInv, SettingsPageFits
<1> QED
  BY <1>1, <1>2, <1>3 DEF SettingsInv, SaveOnItsWay, SavedIsHeld

\* A save that outlives its page says nothing to the next one.
LEMMA ReopeningKeepsSettings ==
  ASSUME SettingsInv, NEW reload \in BOOLEAN, ReopenStoreSettings(reload)
  PROVE  SettingsInv'
<1>1. PICK s : /\ s = NotSaving \/ (IsSave(s) /\ s.left)
               /\ ssPage' = [SsFresh EXCEPT !.save = s]
  <2>1. CASE Saving /\ ~reload
    <3>1. PICK s : s = [ssPage.save EXCEPT !.left = TRUE]
      OBVIOUS
    <3>2. IsSave(ssPage.save)
      BY <2>1 DEF SettingsInv, SettingsPageFits, Saving
    <3>3. IsSave(s) /\ s.left
      BY <3>1, <3>2 DEF IsSave
    <3> QED
      BY <2>1, <3>1, <3>3 DEF ReopenStoreSettings
  <2>2. CASE ~(Saving /\ ~reload)
    BY <2>2 DEF ReopenStoreSettings
  <2> QED
    BY <2>1, <2>2
<1>2. /\ IsSettingsPage(ssPage') /\ ssPage'.saved = FALSE /\ ssPage'.clean = TRUE
      /\ ssPage'.save = s
  BY <1>1 DEF SsFresh, IsSettingsPage
<1>3. AreStores(ssStores') /\ ssStores'.profiles = ssStores.profiles /\ ssServer' = ssServer
  BY DEF ReopenStoreSettings, SettingsInv, AreStores
<1>4. SettingsPageFits(ssPage')
  BY <1>1, <1>2 DEF SettingsPageFits
<1> QED
  BY <1>1, <1>2, <1>3, <1>4 DEF SettingsInv, SaveOnItsWay, SavedIsHeld

LEMMA SettingsStepInv == SettingsInv /\ [StoreSettingsNext]_storeSettingsVars => SettingsInv'
<1> SUFFICES ASSUME SettingsInv, [StoreSettingsNext]_storeSettingsVars PROVE SettingsInv'
  OBVIOUS
<1>1. CASE UNCHANGED storeSettingsVars
  <2>1. ssPage' = ssPage /\ ssStores' = ssStores /\ ssServer' = ssServer
    BY <1>1 DEF storeSettingsVars
  <2> QED
    BY <2>1 DEF SettingsInv
<1>2. CASE \E ok \in BOOLEAN : TenantLoads(ok) \/ StorefrontLoads(ok) \/ ProfilesLoad(ok)
  BY <1>2, LoadingKeepsSettings
<1>3. ASSUME NEW tab \in SettingTabs, ShowSettingTab(tab) PROVE SettingsInv'
  <2>1. /\ ssPage' = [ssPage EXCEPT !.tab = tab] /\ ssStores' = ssStores /\ ssServer' = ssServer
    BY <1>3 DEF ShowSettingTab
  <2>2. /\ IsSettingsPage(ssPage') /\ ssPage'.saved = ssPage.saved /\ ssPage'.clean = ssPage.clean
        /\ ssPage'.save = ssPage.save /\ ssPage'.load = ssPage.load
        /\ ssPage'.tenant = ssPage.tenant /\ ssPage'.config = ssPage.config
    BY <2>1 DEF SettingsInv, SettingsPageFits, IsSettingsPage
  <2>3. SettingsPageFits(ssPage')
    BY <2>2 DEF SettingsInv, SettingsPageFits
  <2> QED
    BY <2>1, <2>2, <2>3 DEF SettingsInv, SaveOnItsWay, SavedIsHeld
<1>4. CASE \/ \E v \in {"first", "typed"} :
                 TypeStoreName(v) \/ UpdateGeneral(v) \/ UpdateBranding(v) \/ ToggleFeature(v)
           \/ \E input \in PaymentInputs \cup ShippingInputs \cup MailInputs \cup SecurityInputs :
                 EditLocal(input)
  BY <1>4, PageInputsKeepSettings
<1>5. CASE \/ \E v \in {"first", "typed"} : EditTexts(v)
           \/ AddBanner \/ \E b \in 1..MaxSections : RemoveBanner(b)
           \/ AddSection \/ \E k \in 1..MaxSections : UpdateSection(k) \/ RemoveSection(k)
           \/ \E k \in 1..MaxSections, d \in {-1, 1} : MoveSection(k, d)
  BY <1>5, ListsKeepSettings
<1>6. CASE \/ AddProfile
           \/ \E p \in ssStores.profiles :
                 UpdateProfile(p) \/ MakeDefaultProfile(p) \/ RemoveProfile(p)
  BY <1>6, ProfilesKeepSettings
<1>7. CASE \/ HandleSaveStore \/ SaveStepDone \/ SavedFades
           \/ \E written \in BOOLEAN : SaveStepFails(written)
           \/ \E reload \in BOOLEAN : ReopenStoreSettings(reload)
  BY <1>7, ClickKeepsSettings, DoneKeepsSettings, FadingKeepsSettings, FailureKeepsSettings,
     ReopeningKeepsSettings
<1> QED
  BY <1>1, <1>2, <1>3, <1>4, <1>5, <1>6, <1>7 DEF StoreSettingsNext

\* The one default makes a set of one.
LEMMA OneDefaultCounted ==
  ASSUME NEW ps, ProfilesFit(ps)
  PROVE  Cardinality({p \in ps : p.default}) = 1
<1>1. PICK d \in ps : d.default /\ \A q \in ps : q.default => q = d
  BY DEF ProfilesFit
<1>2. {p \in ps : p.default} = {d}
  BY <1>1
<1> QED
  BY <1>2, FS_Singleton

LEMMA SettingsHold == BackOfficeSpec => []SettingsInv
<1>1. BackOfficeInit => SettingsInv
  BY SettingsInitInv DEF BackOfficeInit
<1>2. SettingsInv /\ [BackOfficeNext]_backOfficeVars => SettingsInv'
  BY DeskSteps, SettingsStepInv
<1> QED
  BY <1>1, <1>2, PTL DEF BackOfficeSpec

\* A shop always has exactly one default delivery profile, in the browser and
\* at the service, whatever is added, edited, made the default or removed.
THEOREM ShopsHaveADefault == BackOfficeSpec => []OneDefaultProfile
<1>1. SettingsInv => OneDefaultProfile
  BY OneDefaultCounted DEF SettingsInv, OneDefaultProfile
<1> QED
  BY <1>1, SettingsHold, PTL

\* "Saved!" with no save running is shown of the four documents the services
\* hold, unless the user typed while the save ran or it lost a document.
THEOREM SavedIsTrue == BackOfficeSpec => []SavedMeansStored
<1>1. SettingsInv => SavedMeansStored
  BY DEF SettingsInv, SavedIsHeld, SavedMeansStored, Saving
<1> QED
  BY <1>1, SettingsHold, PTL

-----------------------------------------------------------------------------
(***************************************************************************)
(* Plans: an edit of a plan finds its tier by the plan it was opened with, *)
(* and a new plan has an id of its own, so no step gives an id a new tier. *)
(***************************************************************************)

FirstPlanTier == CHOOSE n \in PlanNames : TRUE

IsPlansPage(p) ==
    p = [tab |-> p.tab, plans |-> p.plans, modal |-> p.modal, form |-> p.form,
         asking |-> p.asking, yearly |-> p.yearly, filter |-> p.filter,
         gateways |-> p.gateways, billing |-> p.billing, tenants |-> p.tenants]
IsPlan(p) ==
    p = [id |-> p.id, name |-> p.name, tier |-> p.tier, price |-> p.price,
         perks |-> p.perks, limit |-> p.limit]

\* Plans have their own ids and a tier; the first plan has its own tier.
PlansFit(ps) ==
    /\ IsFiniteSet(ps) /\ \A p \in ps : IsPlan(p) /\ p.tier # Untyped
    /\ \A p \in ps : p.id = 1 => p.tier = FirstPlanTier
    /\ \A p, q \in ps : p.id = q.id => p = q

\* The form is a new plan, under a free id, or the one it was opened with.
PlanFormFits(page) ==
    /\ IsPlan(page.form)
    /\ page.modal \in {"closed", "create", "edit"}
    /\ page.modal = "create" =>
          page.form.tier = Untyped /\ page.form.id # 1 /\ \A p \in page.plans : p.id # page.form.id
    /\ page.modal = "edit" =>
          \E p \in page.plans : p.id = page.form.id /\ p.tier = page.form.tier

PlansInv == IsPlansPage(ppPage) /\ PlansFit(ppPage.plans) /\ PlanFormFits(ppPage)

\* No plan of the first table has the id of one of the second and another tier.
TiersAgree(ps, qs) == \A p \in ps, q \in qs : p.id = q.id => p.tier = q.tier

LEMMA FirstPlanFits ==
    /\ IsPlansPage(PpFresh) /\ PlansFit(PpFresh.plans) /\ PlanFormFits(PpFresh)
    /\ \A p \in PpFresh.plans : p.id = 1 /\ p.tier = FirstPlanTier
<1>1. PICK tier : tier = FirstPlanTier
  OBVIOUS
<1>a. PICK p : p = [NoPlan EXCEPT !.id = 1, !.name = tier, !.tier = tier, !.limit = 100]
  OBVIOUS
<1>2. DefaultPlan(1, FirstPlanTier) = p
  BY <1>1, <1>a DEF DefaultPlan
<1>3. PpFresh.plans = {p} /\ PpFresh.modal = "closed" /\ PpFresh.form = NoPlan
  BY <1>2 DEF PpFresh, FirstPlanTier
<1>4. IsPlansPage(PpFresh)
  BY DEF PpFresh, IsPlansPage
<1>5. IsPlan(NoPlan)
  BY DEF NoPlan, IsPlan
<1>6. FirstPlanTier \in PlanNames /\ FirstPlanTier # Untyped
  BY PlatformPlansAssumption DEF FirstPlanTier
<1>7. IsPlan(p) /\ p.id = 1 /\ p.tier = FirstPlanTier
  <2>1. IsPlan(p) /\ p.id = 1 /\ p.tier = tier
    BY ONLY <1>a DEF NoPlan, IsPlan
  <2> QED
    BY <1>1, <2>1
<1>8. PlansFit({p})
  <2>1. IsFiniteSet({p})
    BY FS_Singleton
  <2>2. p.tier # Untyped
    BY <1>6, <1>7
  <2>3. \A q \in {p} : q = p
    OBVIOUS
  <2>4. \A q \in {p} : IsPlan(q) /\ q.tier # Untyped /\ q.tier = FirstPlanTier
    BY ONLY <1>7, <2>2, <2>3
  <2>5. \A q, r \in {p} : q = r
    OBVIOUS
  <2> QED
    BY ONLY <2>1, <2>4, <2>5 DEF PlansFit
<1>9. PlanFormFits(PpFresh)
  BY <1>3, <1>5 DEF PlanFormFits
<1> QED
  BY <1>3, <1>4, <1>7, <1>8, <1>9

\* There is a free id as long as there are fewer plans than allowed.
LEMMA FreePlanId ==
  ASSUME NEW ps, IsFiniteSet(ps), Cardinality(ps) < MaxPlans
  PROVE  \E n \in 2..MaxPlans + 2 : \A p \in ps : p.id # n
<1> DEFINE ids == {p.id : p \in ps}
<1>1. MaxPlans \in Nat
  BY PlatformPlansAssumption
<1>2. IsFiniteSet(ids) /\ Cardinality(ids) <= Cardinality(ps) /\ Cardinality(ps) \in Nat /\ Cardinality(ids) \in Nat
  <2>1. IsFiniteSet(ids) /\ Cardinality(ids) <= Cardinality(ps)
    <3> DEFINE f == [p \in ps |-> p.id]
    <3>1. f \in Surjection(ps, ids)
      BY DEF Surjection
    <3> QED
      BY <3>1, FS_Surjection
  <2> QED
    BY <2>1, FS_CardinalityType
<1>3. Cardinality(2..MaxPlans + 2) = MaxPlans + 1 /\ IsFiniteSet(2..MaxPlans + 2)
  BY <1>1, FS_Interval
<1>4. ~(2..MaxPlans + 2 \subseteq ids)
  <2>1. SUFFICES ASSUME 2..MaxPlans + 2 \in SUBSET ids PROVE FALSE
    OBVIOUS
  <2> HIDE DEF ids
  <2>2. Cardinality(2..MaxPlans + 2) <= Cardinality(ids)
    BY <1>2, <2>1, FS_Subset
  <2>3. Cardinality(ids) < MaxPlans
    BY <1>1, <1>2
  <2> QED
    BY <1>1, <1>2, <1>3, <2>2, <2>3
<1> QED
  BY <1>4

\* A step that leaves the plans alone and keeps the form, or closes it.
LEMMA PlansUntouched ==
  ASSUME PlansInv, IsPlansPage(ppPage'), ppPage'.plans = ppPage.plans,
         ppPage'.form = ppPage.form, ppPage'.modal \in {ppPage.modal, "closed"}
  PROVE  PlansInv' /\ TiersAgree(ppPage.plans, ppPage'.plans)
BY DEF PlansInv, PlansFit, PlanFormFits, TiersAgree

\* A step that types into a form that is open.
LEMMA FormTyped ==
  ASSUME PlansInv, IsPlansPage(ppPage'), ppPage'.plans = ppPage.plans,
         ppPage'.modal = ppPage.modal, IsPlan(ppPage'.form),
         ppPage'.form.id = ppPage.form.id, ppPage'.form.tier = ppPage.form.tier
  PROVE  PlansInv' /\ TiersAgree(ppPage.plans, ppPage'.plans)
BY DEF PlansInv, PlansFit, PlanFormFits, TiersAgree

LEMMA TypingKeepsTiers ==
  ASSUME PlansInv, \/ \E n : TypePlanName(n) \/ TypePlanPrice(n) \/ TypePlanLimit(n)
                   \/ TogglePlanFeature
  PROVE  PlansInv' /\ TiersAgree(ppPage.plans, ppPage'.plans)
<1>1. IsPlansPage(ppPage) /\ IsPlan(ppPage.form)
  BY DEF PlansInv, PlanFormFits
<1>2. PICK f : /\ ppPage' = [ppPage EXCEPT !.form = f]
               /\ \E n : \/ f = [ppPage.form EXCEPT !.name = n]
                         \/ f = [ppPage.form EXCEPT !.price = n]
                         \/ f = [ppPage.form EXCEPT !.limit = n]
                         \/ f = [ppPage.form EXCEPT !.perks = n]
  BY DEF TypePlanName, TypePlanPrice, TypePlanLimit, TogglePlanFeature
<1>3. IsPlan(f) /\ f.id = ppPage.form.id /\ f.tier = ppPage.form.tier
  BY <1>1, <1>2 DEF IsPlan
<1>4. /\ IsPlansPage(ppPage') /\ ppPage'.plans = ppPage.plans
      /\ ppPage'.modal = ppPage.modal /\ ppPage'.form = f
  BY ONLY <1>1, <1>2 DEF IsPlansPage
<1> QED
  BY <1>3, <1>4, FormTyped

\* Opening the form, for a new plan or for one of the table.
LEMMA OpeningKeepsTiers ==
  ASSUME PlansInv, OpenCreateModal \/ \E p \in ppPage.plans : OpenEditModal(p)
  PROVE  PlansInv' /\ TiersAgree(ppPage.plans, ppPage'.plans)
<1>1. IsPlansPage(ppPage) /\ PlansFit(ppPage.plans)
  BY DEF PlansInv
<1>2. CASE OpenCreateModal
  <2> DEFINE fresh == CHOOSE n \in 2..MaxPlans + 2 : \A p \in ppPage.plans : p.id # n
  <2>1. fresh \in 2..MaxPlans + 2 /\ \A p \in ppPage.plans : p.id # fresh
    BY <1>1, <1>2, FreePlanId DEF OpenCreateModal, PlansFit
  <2>2. fresh # 1
    <3>1. MaxPlans \in Nat
      BY PlatformPlansAssumption
    <3> HIDE DEF fresh
    <3> QED
      BY <2>1, <3>1
  <2>3. PICK f : f = [NoPlan EXCEPT !.id = fresh, !.name = Untyped, !.tier = Untyped, !.limit = 100]
    OBVIOUS
  <2>4. ppPage' = [ppPage EXCEPT !.modal = "create", !.form = f]
    BY <1>2, <2>3 DEF OpenCreateModal
  <2> HIDE DEF fresh
  <2>5. IsPlan(f) /\ f.tier = Untyped /\ f.id = fresh
    BY <2>3 DEF NoPlan, IsPlan
  <2>6. /\ IsPlansPage(ppPage') /\ ppPage'.plans = ppPage.plans
        /\ ppPage'.modal = "create" /\ ppPage'.form = f
    BY <1>1, <2>4 DEF IsPlansPage
  <2>7. PlanFormFits(ppPage')
    BY <2>1, <2>2, <2>5, <2>6 DEF PlanFormFits
  <2> QED
    BY <1>1, <2>6, <2>7 DEF PlansInv, PlansFit, TiersAgree
<1>3. ASSUME NEW p \in ppPage.plans, OpenEditModal(p)
      PROVE  PlansInv' /\ TiersAgree(ppPage.plans, ppPage'.plans)
  <2>1. ppPage' = [ppPage EXCEPT !.modal = "edit", !.form = p]
    BY <1>3 DEF OpenEditModal
  <2>2. /\ IsPlansPage(ppPage') /\ ppPage'.plans = ppPage.plans
        /\ ppPage'.modal = "edit" /\ ppPage'.form = p
    BY <1>1, <2>1 DEF IsPlansPage
  <2>3. PlanFormFits(ppPage')
    BY <1>1, <2>2 DEF PlanFormFits, PlansFit
  <2> QED
    BY <1>1, <2>2, <2>3 DEF PlansInv, PlansFit, TiersAgree
<1> QED
  BY <1>2, <1>3

\* Saving: the plan of the form takes the place of the one it was opened with.
LEMMA SavingKeepsTiers ==
  ASSUME PlansInv, SavePlan
  PROVE  PlansInv' /\ TiersAgree(ppPage.plans, ppPage'.plans)
<1>1. /\ IsPlansPage(ppPage) /\ PlansFit(ppPage.plans) /\ IsPlan(ppPage.form)
      /\ PlanFormFits(ppPage) /\ ppPage.modal \in {"create", "edit"}
      /\ ppPage.form.name # Untyped
  BY DEF PlansInv, PlanFormFits, SavePlan
<1>2. PICK t : t = IF ppPage.form.tier = Untyped THEN ppPage.form.name ELSE ppPage.form.tier
  OBVIOUS
<1>3. PICK f : f = [ppPage.form EXCEPT !.tier = t]
  OBVIOUS
<1>4. IsPlan(f) /\ f.id = ppPage.form.id /\ f.tier = t
  BY ONLY <1>1, <1>3 DEF IsPlan
<1>5. t # Untyped
  BY <1>1, <1>2
<1> DEFINE rest == {p \in ppPage.plans : p.id # ppPage.form.id}
           new == rest \cup {f}
<1>6. ppPage' = [ppPage EXCEPT !.modal = "closed", !.plans = new]
  <2>1. PlanToSave = f
    BY <1>2, <1>3 DEF PlanToSave
  <2> QED
    BY <2>1 DEF SavePlan
<1>7. IsFiniteSet(new)
  <2>1. IsFiniteSet(rest)
    BY <1>1, FS_Subset DEF PlansFit
  <2> QED
    BY <2>1, FS_AddElement
<1>8. \A p \in ppPage.plans : p.id = f.id => p.tier = f.tier
  <2>1. CASE ppPage.modal = "create"
    BY <1>1, <1>4, <2>1 DEF PlanFormFits
  <2>2. CASE ppPage.modal = "edit"
    <3>1. PICK o \in ppPage.plans : o.id = ppPage.form.id /\ o.tier = ppPage.form.tier
      BY <1>1, <2>2 DEF PlanFormFits
    <3>2. o.tier # Untyped
      BY <1>1 DEF PlansFit
    <3>3. f.tier = o.tier
      BY <1>2, <1>4, <3>1, <3>2
    <3>4. \A p \in ppPage.plans : p.id = f.id => p = o
      BY <1>1, <1>4, <3>1 DEF PlansFit
    <3> QED
      BY <3>3, <3>4
  <2> QED
    BY <1>1, <2>1, <2>2
<1>9. f.id = 1 => f.tier = FirstPlanTier
  <2>1. CASE ppPage.modal = "create"
    BY <1>1, <1>4, <2>1 DEF PlanFormFits
  <2>2. CASE ppPage.modal = "edit"
    <3>1. PICK o \in ppPage.plans : o.id = ppPage.form.id /\ o.tier = ppPage.form.tier
      BY <1>1, <2>2 DEF PlanFormFits
    <3> QED
      BY <1>1, <1>4, <1>8, <3>1 DEF PlansFit
  <2> QED
    BY <1>1, <2>1, <2>2
<1>10. PlansFit(new)
  <2>1. \A p \in new : IsPlan(p) /\ p.tier # Untyped
    BY <1>1, <1>4, <1>5 DEF PlansFit
  <2>2. \A p \in new : p.id = 1 => p.tier = FirstPlanTier
    BY <1>1, <1>9 DEF PlansFit
  <2>3. \A p, q \in new : p.id = q.id => p = q
    BY <1>1, <1>4 DEF PlansFit
  <2> QED
    BY <1>7, <2>1, <2>2, <2>3 DEF PlansFit
<1>11. TiersAgree(ppPage.plans, new)
  BY <1>1, <1>8 DEF PlansFit, TiersAgree
<1> HIDE DEF new
<1>12. /\ IsPlansPage(ppPage') /\ ppPage'.plans = new /\ ppPage'.modal = "closed"
       /\ ppPage'.form = ppPage.form
  BY <1>1, <1>6 DEF IsPlansPage
<1>13. PlanFormFits(ppPage')
  BY <1>1, <1>12 DEF PlanFormFits
<1> QED
  BY <1>10, <1>11, <1>12, <1>13 DEF PlansInv

\* Deleting a plan, with no form open.
LEMMA DeletingKeepsTiers ==
  ASSUME PlansInv, NEW p \in ppPage.plans, DeletePlan(p)
  PROVE  PlansInv' /\ TiersAgree(ppPage.plans, ppPage'.plans)
<1>1. /\ IsPlansPage(ppPage) /\ PlansFit(ppPage.plans) /\ IsPlan(ppPage.form)
      /\ ppPage.modal = "closed"
  BY DEF PlansInv, PlanFormFits, DeletePlan, OnTab
<1> DEFINE rest == ppPage.plans \ {p}
<1>2. ppPage' = [ppPage EXCEPT !.plans = rest, !.asking = 0]
  BY DEF DeletePlan
<1>3. IsFiniteSet(rest)
  BY <1>1, FS_RemoveElement DEF PlansFit
<1>4. PlansFit(rest) /\ TiersAgree(ppPage.plans, rest)
  BY <1>1, <1>3 DEF PlansFit, TiersAgree
<1> HIDE DEF rest
<1>5. /\ IsPlansPage(ppPage') /\ ppPage'.plans = rest /\ ppPage'.modal = "closed"
      /\ ppPage'.form = ppPage.form
  BY <1>1, <1>2 DEF IsPlansPage
<1> QED
  BY <1>1, <1>4, <1>5 DEF PlansInv, PlanFormFits

\* Everything else on the page leaves the plans and the form alone.
LEMMA BillingKeepsTiers ==
  ASSUME PlansInv,
         \/ TenantsArrive \/ ToggleYearly \/ ClosePlanModal \/ KeepPlan \/ ToggleSuspend
         \/ \E tab \in {"plans", "billing"} : ShowPlansTab(tab)
         \/ \E p \in ppPage.plans : AskDeletePlan(p)
         \/ \E s \in {"all", "paid", "overdue"} : FilterInvoices(s)
         \/ \E g \in DOMAIN Gateways : ToggleGateway(g)
         \/ \E d \in {0, 28} : TypeBilling(d)
  PROVE  PlansInv' /\ TiersAgree(ppPage.plans, ppPage'.plans)
<1>1. IsPlansPage(ppPage)
  BY DEF PlansInv
<1>2. \E v : \/ ppPage' = [ppPage EXCEPT !.tenants = v] \/ ppPage' = [ppPage EXCEPT !.yearly = v]
             \/ ppPage' = [ppPage EXCEPT !.modal = "closed"]
             \/ ppPage' = [ppPage EXCEPT !.asking = v] \/ ppPage' = [ppPage EXCEPT !.tab = v]
             \/ ppPage' = [ppPage EXCEPT !.filter = v] \/ ppPage' = [ppPage EXCEPT !.gateways = v]
             \/ ppPage' = [ppPage EXCEPT !.billing = v]
  BY DEF TenantsArrive, ToggleYearly, ClosePlanModal, KeepPlan, ToggleSuspend, ShowPlansTab,
         AskDeletePlan, FilterInvoices, ToggleGateway, TypeBilling
<1>3. /\ IsPlansPage(ppPage') /\ ppPage'.plans = ppPage.plans /\ ppPage'.form = ppPage.form
      /\ ppPage'.modal \in {ppPage.modal, "closed"}
  BY ONLY <1>1, <1>2 DEF IsPlansPage
<1> QED
  BY <1>3, PlansUntouched

\* Opening the page again starts over with the first plan.
LEMMA ReopeningKeepsTiers ==
  ASSUME PlansInv, ReopenPlans
  PROVE  PlansInv' /\ TiersAgree(ppPage.plans, ppPage'.plans)
<1>1. ppPage' = PpFresh
  BY DEF ReopenPlans
<1>2. PlansInv'
  BY <1>1, FirstPlanFits DEF PlansInv
<1>3. TiersAgree(ppPage.plans, PpFresh.plans)
  BY FirstPlanFits DEF PlansInv, PlansFit, TiersAgree
<1> QED
  BY <1>1, <1>2, <1>3

LEMMA PlansStepInv ==
  ASSUME PlansInv, [PlatformPlansNext]_platformPlansVars
  PROVE  PlansInv' /\ TiersAgree(ppPage.plans, ppPage'.plans)
<1>1. CASE UNCHANGED platformPlansVars
  <2>1. ppPage' = ppPage
    BY <1>1 DEF platformPlansVars
  <2> QED
    BY <2>1, PlansUntouched DEF PlansInv
<1>2. CASE \/ \E n \in PlanNames \cup {Untyped} : TypePlanName(n)
           \/ \E n \in PlanPrices : TypePlanPrice(n)
           \/ \E n \in {Unlimited, 0} : TypePlanLimit(n)
           \/ TogglePlanFeature
  BY <1>2, TypingKeepsTiers
<1>3. CASE OpenCreateModal \/ \E p \in ppPage.plans : OpenEditModal(p)
  BY <1>3, OpeningKeepsTiers
<1>4. CASE SavePlan \/ ReopenPlans \/ \E p \in ppPage.plans : DeletePlan(p)
  BY <1>4, SavingKeepsTiers, ReopeningKeepsTiers, DeletingKeepsTiers
<1>5. CASE \/ TenantsArrive \/ ToggleYearly \/ ClosePlanModal \/ KeepPlan \/ ToggleSuspend
           \/ \E tab \in {"plans", "billing"} : ShowPlansTab(tab)
           \/ \E p \in ppPage.plans : AskDeletePlan(p)
           \/ \E s \in {"all", "paid", "overdue"} : FilterInvoices(s)
           \/ \E g \in DOMAIN Gateways : ToggleGateway(g)
           \/ \E d \in {0, 28} : TypeBilling(d)
  BY <1>5, BillingKeepsTiers
<1> QED
  BY <1>1, <1>2, <1>3, <1>4, <1>5 DEF PlatformPlansNext

\* No step gives the id of a plan another tier, so whoever subscribes to a
\* plan is still found after an edit, a deletion or a new visit of the page.
THEOREM PlansKeepSubscribers == BackOfficeSpec => PlanKeepsSubscribers
<1>1. BackOfficeInit => PlansInv
  BY FirstPlanFits DEF BackOfficeInit, PlatformPlansInit, PlansInv
<1>2. ASSUME PlansInv, [BackOfficeNext]_backOfficeVars
      PROVE  PlansInv' /\ TiersAgree(ppPage.plans, ppPage'.plans)
  BY <1>2, DeskSteps, PlansStepInv
<1>3. TiersAgree(ppPage.plans, ppPage'.plans) =>
         [\A p \in ppPage.plans, q \in ppPage'.plans : p.id = q.id => p.tier = q.tier]_platformPlansVars
  BY DEF TiersAgree
<1>4. PlansInv /\ [BackOfficeNext]_backOfficeVars =>
         /\ PlansInv'
         /\ [\A p \in ppPage.plans, q \in ppPage'.plans : p.id = q.id => p.tier = q.tier]_platformPlansVars
  BY <1>2, <1>3
<1> QED
  BY <1>1, <1>4, PTL DEF BackOfficeSpec, PlanKeepsSubscribers

-----------------------------------------------------------------------------
(***************************************************************************)
(* Point of sale: what has been sent of a sale is a prefix of the lines of *)
(* the click, and only a sale that was sent whole is confirmed and shown.  *)
(***************************************************************************)

PosOrderRecords == [lines : Seq(SaleLines), confirmed : BOOLEAN]

\* The lines on the screen, one for every key.
LinesFit(s) ==
    /\ s \in Seq(SaleLines)
    /\ \A i, j \in DOMAIN s : s[i].key = s[j].key => i = j

\* The running sale: once its order exists it is open and holds a prefix.
JobFits(j, orders) ==
    /\ j = [step |-> j.step, lines |-> j.lines, till |-> j.till, order |-> j.order,
            sent |-> j.sent]
    /\ j.step \in {"create", "add"} /\ j.lines \in Seq(SaleLines) /\ Len(j.lines) > 0
    /\ j.sent \in 0..Len(j.lines)
    /\ j.step = "create" => j.sent = 0
    /\ j.step = "add" =>
          /\ j.order \in 1..Len(orders) /\ ~orders[j.order].confirmed
          /\ Len(orders[j.order].lines) = j.sent
          /\ \A i \in 1..j.sent : orders[j.order].lines[i] = j.lines[i]

SalesInv ==
    /\ LinesFit(items)
    /\ posOrders \in Seq(PosOrderRecords)
    /\ \A o \in 1..Len(posOrders) : posOrders[o].confirmed => Len(posOrders[o].lines) > 0
    /\ job = NoJob \/ JobFits(job, posOrders)
    /\ receipt # NoReceipt =>
          /\ job = NoJob /\ receipt.order \in 1..Len(posOrders)
          /\ posOrders[receipt.order].lines = receipt.lines

LEMMA SalesInitInv == PosInit => SalesInv
<1> SUFFICES ASSUME PosInit PROVE SalesInv
  OBVIOUS
<1>1. items = <<>> /\ posOrders = <<>> /\ job = NoJob /\ receipt = NoReceipt
  BY DEF PosInit
<1>2. LinesFit(items)
  BY <1>1 DEF LinesFit
<1> QED
  BY <1>1, <1>2 DEF SalesInv

\* A sale that is running is a job with its fields.
LEMMA RunningJob ==
  ASSUME SalesInv, job.step \in {"create", "add"} PROVE JobFits(job, posOrders)
BY DEF SalesInv, NoJob

\* A key that is rung up has its one line, which can be taken away.
LEMMA LineTakenAway ==
  ASSUME LinesFit(items), NEW k \in RungUp(items)
  PROVE  LinesFit(WithoutLine(k))
<1> DEFINE n == Len(items)
           at == CHOOSE i \in DOMAIN items : items[i].key = k
           new == [i \in 1..n - 1 |-> items[IF i < at THEN i ELSE i + 1]]
<1>1. n \in Nat /\ DOMAIN items = 1..n /\ \A i \in 1..n : items[i] \in SaleLines
  BY DEF LinesFit
<1>2. at \in 1..n
  BY <1>1 DEF RungUp
<1>3. n - 1 \in Nat
  BY <1>1, <1>2
<1> HIDE DEF at, n
<1>4. \A i \in 1..n - 1 : (IF i < at THEN i ELSE i + 1) \in 1..n
  BY <1>1, <1>2
<1>5. new \in [1..n - 1 -> SaleLines]
  BY <1>1, <1>4
<1>6. new \in Seq(SaleLines) /\ DOMAIN new = 1..n - 1
  <2> HIDE DEF new
  <2> QED
    BY <1>3, <1>5
<1>7. ASSUME NEW i \in 1..n - 1, NEW j \in 1..n - 1, new[i].key = new[j].key
      PROVE  i = j
  <2>1. (IF i < at THEN i ELSE i + 1) = (IF j < at THEN j ELSE j + 1)
    BY <1>1, <1>4, <1>7 DEF LinesFit
  <2> QED
    BY <1>1, <1>2, <2>1
<1>8. LinesFit(new)
  <2> HIDE DEF new
  <2> QED
    BY <1>6, <1>7 DEF LinesFit
<1> QED
  BY <1>8 DEF WithoutLine, at, n

\* A line that is edited keeps its key.
LEMMA LinesEdited ==
  ASSUME LinesFit(items), NEW new, DOMAIN new = DOMAIN items,
         new = [i \in DOMAIN items |-> new[i]],
         \A i \in DOMAIN items : new[i] \in SaleLines /\ new[i].key = items[i].key
  PROVE  LinesFit(new)
<1>1. Len(items) \in Nat /\ DOMAIN items = 1..Len(items)
  BY DEF LinesFit
<1>2. new \in [1..Len(items) -> SaleLines]
  BY <1>1
<1>3. new \in Seq(SaleLines)
  BY <1>1, <1>2
<1> QED
  BY <1>3 DEF LinesFit

\* What the screen does, while it shows the form, leaves the sale alone.
LEMMA ScreenKeepsSales ==
  ASSUME SalesInv, LinesFit(items'), job' = job, receipt' = receipt, posOrders' = posOrders
  PROVE  SalesInv'
BY DEF SalesInv

LEMMA ScreenStepsKeepSales ==
  ASSUME SalesInv,
         \/ \E k \in PosKeys : AddProduct(k) \/ RemoveLine(k)
         \/ \E k \in PosKeys, q \in 0..MaxQty : UpdateQty(k, q)
         \/ \E k \in PosKeys, p \in PosPrices : UpdatePrice(k, p)
  PROVE  SalesInv'
<1>0. /\ LinesFit(items) /\ items \in Seq(SaleLines)
      /\ Len(items) \in Nat /\ DOMAIN items = 1..Len(items)
      /\ \A i \in DOMAIN items : items[i] \in SaleLines
  BY DEF SalesInv, LinesFit
<1>1. ASSUME NEW k \in PosKeys, AddProduct(k) PROVE SalesInv'
  <2>1. CASE k \notin RungUp(items)
    <3>1. PICK l : l = [key |-> k, price |-> PosListPrice[k], qty |-> 1]
      OBVIOUS
    <3>2. l \in SaleLines /\ l.key = k
      BY <3>1, PosAssumption DEF SaleLines
    <3>3. items' = Append(items, l)
      BY <1>1, <2>1, <3>1 DEF AddProduct, SaleLine
    <3>4. items' \in Seq(SaleLines) /\ DOMAIN items' = 1..Len(items) + 1
          /\ (\A i \in 1..Len(items) : items'[i] = items[i]) /\ items'[Len(items) + 1] = l
      BY <1>0, <3>2, <3>3
    <3>5. \A i \in 1..Len(items) : items[i].key # k
      BY <1>0, <2>1 DEF RungUp
    <3>6. \A i, j \in DOMAIN items' : items'[i].key = items'[j].key => i = j
      BY <1>0, <3>2, <3>4, <3>5 DEF LinesFit
    <3>7. LinesFit(items')
      BY <3>4, <3>6 DEF LinesFit
    <3> QED
      BY <1>1, <3>7, ScreenKeepsSales DEF AddProduct
  <2>2. CASE k \in RungUp(items)
    <3>1. /\ items' = [i \in DOMAIN items |-> items'[i]]
          /\ \A i \in DOMAIN items : \/ items'[i] = items[i]
                                     \/ items'[i] = [items[i] EXCEPT !.qty = @ + 1]
      BY <1>1, <2>2 DEF AddProduct
    <3>2. ASSUME NEW i \in DOMAIN items
          PROVE  items'[i] \in SaleLines /\ items'[i].key = items[i].key
      <4>1. PICK l : l = items[i] /\ l \in SaleLines
        BY <1>0
      <4>2. PICK q : q = [l EXCEPT !.qty = l.qty + 1]
        OBVIOUS
      <4>3. q \in SaleLines /\ q.key = l.key
        BY ONLY <4>1, <4>2 DEF SaleLines
      <4>4. items'[i] = l \/ items'[i] = q
        BY <3>1, <4>1, <4>2
      <4> QED
        BY <4>1, <4>3, <4>4
    <3>3. LinesFit(items')
      BY <1>0, <3>1, <3>2, LinesEdited
    <3> QED
      BY <1>1, <3>3, ScreenKeepsSales DEF AddProduct
  <2> QED
    BY <2>1, <2>2
<1>2. ASSUME NEW k \in PosKeys, RemoveLine(k) PROVE SalesInv'
  BY <1>0, <1>2, LineTakenAway, ScreenKeepsSales DEF RemoveLine
<1>3. ASSUME NEW k \in PosKeys, NEW q \in 0..MaxQty, UpdateQty(k, q) PROVE SalesInv'
  <2>1. CASE q <= 0
    BY <1>0, <1>3, <2>1, LineTakenAway, ScreenKeepsSales DEF UpdateQty
  <2>2. CASE ~(q <= 0)
    <3>1. PICK v : v = IF PosStock[k] # NoLimit THEN Lesser(q, PosStock[k]) ELSE q
      OBVIOUS
    <3>2. v \in Nat
      BY <3>1, PosAssumption DEF Lesser
    <3>3. items' = [i \in DOMAIN items |-> IF items[i].key # k THEN items[i]
                                           ELSE [items[i] EXCEPT !.qty = v]]
      BY <1>3, <2>2, <3>1 DEF UpdateQty
    <3>4. \A i \in DOMAIN items : items'[i] \in SaleLines /\ items'[i].key = items[i].key
      BY <1>0, <3>2, <3>3 DEF SaleLines
    <3>5. items' = [i \in DOMAIN items |-> items'[i]]
      BY <3>3
    <3>6. LinesFit(items')
      BY <1>0, <3>4, <3>5, LinesEdited
    <3> QED
      BY <1>3, <3>6, ScreenKeepsSales DEF UpdateQty
  <2> QED
    BY <2>1, <2>2
<1>4. ASSUME NEW k \in PosKeys, NEW p \in PosPrices, UpdatePrice(k, p) PROVE SalesInv'
  <2>1. items' = [i \in DOMAIN items |-> IF items[i].key = k THEN [items[i] EXCEPT !.price = p]
                                         ELSE items[i]]
    BY <1>4 DEF UpdatePrice
  <2>2. p \in Nat
    BY PosAssumption
  <2>3. \A i \in DOMAIN items : items'[i] \in SaleLines /\ items'[i].key = items[i].key
    BY <1>0, <2>1, <2>2 DEF SaleLines
  <2>4. items' = [i \in DOMAIN items |-> items'[i]]
    BY <2>1
  <2>5. LinesFit(items')
    BY <1>0, <2>3, <2>4, LinesEdited
  <2> QED
    BY <1>4, <2>5, ScreenKeepsSales DEF UpdatePrice
<1> QED
  BY <1>1, <1>2, <1>3, <1>4

\* The till, and a sale that is started from what the screen shows.
LEMMA TillKeepsSales == ASSUME SalesInv, TypeInTill PROVE SalesInv'
BY DEF SalesInv, TypeInTill

LEMMA StartingKeepsSales == ASSUME SalesInv, StartSale PROVE SalesInv'
<1>1. LinesFit(items) /\ items # <<>> /\ receipt = NoReceipt
  BY DEF SalesInv, StartSale, CanSell, Selling
<1>2. PICK j : /\ j = [step |-> "create", lines |-> items, till |-> till, order |-> 0, sent |-> 0]
               /\ j = job'
  BY DEF StartSale
<1>3. items \in Seq(SaleLines) /\ Len(items) > 0 /\ Len(items) \in Nat
  BY <1>1 DEF LinesFit
<1>4. JobFits(j, posOrders)
  <2>1. /\ j = [step |-> j.step, lines |-> j.lines, till |-> j.till, order |-> j.order,
                sent |-> j.sent]
        /\ j.step = "create" /\ j.lines = items /\ j.sent = 0
    BY <1>2
  <2> QED
    BY <1>3, <2>1 DEF JobFits
<1>5. /\ job' = j /\ items' = items /\ receipt' = receipt /\ posOrders' = posOrders
  BY <1>2 DEF StartSale
<1> QED
  BY <1>1, <1>4, <1>5 DEF SalesInv

\* Giving a sale up leaves the orders as they are.
LEMMA GivingUpKeepsSales ==
  ASSUME SalesInv, job' = NoJob, items' = items, receipt' = NoReceipt,
         posOrders' \in Seq(PosOrderRecords),
         \A o \in 1..Len(posOrders') : posOrders'[o].confirmed => Len(posOrders'[o].lines) > 0
  PROVE  SalesInv'
BY DEF SalesInv, LinesFit

\* No receipt is shown while a sale runs.
LEMMA NoReceiptYet ==
  ASSUME SalesInv, job.step \in {"create", "add"} PROVE receipt = NoReceipt
BY DEF SalesInv, NoJob

LEMMA CreatingKeepsSales ==
  ASSUME SalesInv, NEW answered \in BOOLEAN, CreateSale(answered)
  PROVE  SalesInv'
<1>1. JobFits(job, posOrders) /\ receipt = NoReceipt /\ posOrders \in Seq(PosOrderRecords)
  BY RunningJob, NoReceiptYet DEF CreateSale, SalesInv
<1>2. PICK o : o = [lines |-> <<>>, confirmed |-> FALSE] /\ posOrders' = Append(posOrders, o)
  BY DEF CreateSale
<1>3. o \in PosOrderRecords /\ ~o.confirmed /\ o.lines = <<>>
  BY <1>2 DEF PosOrderRecords
<1> DEFINE n == Len(posOrders)
<1>4. /\ n \in Nat /\ posOrders' \in Seq(PosOrderRecords) /\ Len(posOrders') = n + 1
      /\ \A i \in 1..n : posOrders'[i] = posOrders[i]
      /\ posOrders'[n + 1] = o
  BY <1>1, <1>2, <1>3
<1>5. ASSUME NEW i \in 1..Len(posOrders'), posOrders'[i].confirmed
      PROVE  Len(posOrders'[i].lines) > 0
  <2>1. i # n + 1
    BY <1>3, <1>4, <1>5
  <2>2. i \in 1..n
    BY <1>4, <2>1
  <2> QED
    BY <1>4, <1>5, <2>2 DEF SalesInv
<1>6. CASE ~answered
  BY <1>1, <1>4, <1>5, <1>6, GivingUpKeepsSales DEF CreateSale, SaleFails
<1>7. CASE answered
  <2>1. job' = [job EXCEPT !.step = "add", !.order = n + 1] /\ receipt' = receipt
        /\ items' = items /\ job.step = "create"
    BY <1>7 DEF CreateSale
  <2>2. PICK j : j = job'
    OBVIOUS
  <2>3. /\ j = [step |-> j.step, lines |-> j.lines, till |-> j.till, order |-> j.order,
                sent |-> j.sent]
        /\ j.step = "add" /\ j.order = n + 1 /\ j.lines = job.lines /\ j.sent = job.sent
    BY <1>1, <2>1, <2>2 DEF JobFits
  <2>4. j.sent = 0 /\ j.lines \in Seq(SaleLines) /\ Len(j.lines) > 0 /\ j.sent \in 0..Len(j.lines)
    BY <1>1, <2>1, <2>3 DEF JobFits
  <2>5. /\ j.order \in 1..Len(posOrders') /\ ~posOrders'[j.order].confirmed
        /\ Len(posOrders'[j.order].lines) = 0
    BY <1>3, <1>4, <2>3
  <2>6. JobFits(j, posOrders')
    BY <2>3, <2>4, <2>5 DEF JobFits
  <2> QED
    BY <1>1, <1>4, <1>5, <2>1, <2>2, <2>6 DEF SalesInv, LinesFit
<1> QED
  BY <1>6, <1>7

LEMMA SendingKeepsSales ==
  ASSUME SalesInv, NEW answered \in BOOLEAN, SendLine(answered)
  PROVE  SalesInv'
<1>1. /\ JobFits(job, posOrders) /\ receipt = NoReceipt /\ posOrders \in Seq(PosOrderRecords)
      /\ job.step = "add" /\ job.sent < Len(job.lines)
  BY RunningJob, NoReceiptYet DEF SendLine, SalesInv
<1> DEFINE n == Len(posOrders)
<1>2. PICK k, m, l : k = job.order /\ m = job.sent /\ l = job.lines[job.sent + 1]
  OBVIOUS
<1>3. PICK ls : ls = posOrders[k].lines
  OBVIOUS
<1>4. /\ n \in Nat /\ k \in 1..n /\ posOrders[k] \in PosOrderRecords
      /\ ls \in Seq(SaleLines) /\ ~posOrders[k].confirmed /\ Len(ls) = m
      /\ m \in Nat /\ l \in SaleLines /\ job.lines \in Seq(SaleLines)
      /\ \A i \in 1..m : ls[i] = job.lines[i]
  <2>1. /\ k \in 1..n /\ n \in Nat /\ m \in 0..Len(job.lines) /\ m < Len(job.lines)
        /\ job.lines \in Seq(SaleLines) /\ Len(job.lines) \in Nat
        /\ ~posOrders[k].confirmed /\ Len(ls) = m
        /\ \A i \in 1..m : ls[i] = job.lines[i]
    BY <1>1, <1>2, <1>3 DEF JobFits
  <2>2. m \in Nat /\ m + 1 \in 1..Len(job.lines)
    BY <2>1
  <2>3. l \in SaleLines
    BY <1>2, <2>1, <2>2
  <2>4. posOrders[k] \in PosOrderRecords
    BY <1>1, <2>1
  <2>5. ls \in Seq(SaleLines)
    BY <1>3, <2>4 DEF PosOrderRecords
  <2> QED
    BY <2>1, <2>2, <2>3, <2>4, <2>5
<1>5. PICK new : new = Append(ls, l)
  OBVIOUS
<1>6. /\ new \in Seq(SaleLines) /\ Len(new) = m + 1
      /\ (\A i \in 1..m : new[i] = ls[i]) /\ new[m + 1] = l
  BY ONLY <1>4, <1>5
<1>7. PICK o : o = [posOrders[k] EXCEPT !.lines = new]
  OBVIOUS
<1>8. o \in PosOrderRecords /\ o.lines = new /\ o.confirmed = posOrders[k].confirmed
  BY ONLY <1>4, <1>6, <1>7 DEF PosOrderRecords
<1>9. posOrders' = [posOrders EXCEPT ![k] = o]
  BY <1>2, <1>3, <1>5, <1>7 DEF SendLine
<1>10. /\ posOrders' \in Seq(PosOrderRecords) /\ Len(posOrders') = n
       /\ posOrders'[k] = o /\ \A i \in 1..n : i # k => posOrders'[i] = posOrders[i]
  BY <1>1, <1>4, <1>8, <1>9
<1>11. ASSUME NEW i \in 1..Len(posOrders'), posOrders'[i].confirmed
       PROVE  Len(posOrders'[i].lines) > 0
  <2>1. i # k
    BY <1>4, <1>8, <1>10, <1>11
  <2> QED
    BY <1>10, <1>11, <2>1 DEF SalesInv
<1>12. CASE ~answered
  BY <1>1, <1>10, <1>11, <1>12, GivingUpKeepsSales DEF SendLine, SaleFails
<1>13. CASE answered
  <2>1. PICK j : j = job' /\ j = [job EXCEPT !.sent = m + 1]
    BY <1>2, <1>13 DEF SendLine
  <2>2. /\ j = [step |-> j.step, lines |-> j.lines, till |-> j.till, order |-> j.order,
                sent |-> j.sent]
        /\ j.step = "add" /\ j.order = k /\ j.lines = job.lines /\ j.sent = m + 1
    BY <1>1, <1>2, <2>1 DEF JobFits
  <2>3. j.sent \in 0..Len(j.lines) /\ j.lines \in Seq(SaleLines) /\ Len(j.lines) > 0
    BY <1>1, <1>2, <1>4, <2>2
  <2>4. ASSUME NEW i \in 1..m + 1 PROVE new[i] = job.lines[i]
    <3>1. m \in Nat
      BY <1>4
    <3>2. i \in 1..m \/ i = m + 1
      BY ONLY <3>1, i \in 1..m + 1
    <3>3. CASE i \in 1..m
      BY <1>4, <1>6, <3>3
    <3>4. CASE i = m + 1
      BY <1>2, <1>6, <3>4
    <3> QED
      BY <3>2, <3>3, <3>4
  <2>5. JobFits(j, posOrders')
    BY <1>4, <1>6, <1>8, <1>10, <2>2, <2>3, <2>4 DEF JobFits
  <2>6. items' = items /\ receipt' = receipt
    BY <1>13 DEF SendLine
  <2> QED
    BY <1>1, <1>10, <1>11, <2>1, <2>5, <2>6 DEF SalesInv, LinesFit
<1> QED
  BY <1>12, <1>13

LEMMA RefusalKeepsSales == ASSUME SalesInv, SaleRefused PROVE SalesInv'
<1>1. receipt = NoReceipt
  BY NoReceiptYet DEF SaleRefused
<1> QED
  BY <1>1, GivingUpKeepsSales DEF SaleRefused, SaleFails, SalesInv

\* Confirming: every line of the click is in the order by then.
LEMMA ConfirmingKeepsSales ==
  ASSUME SalesInv, NEW reached \in BOOLEAN, ConfirmSale(reached)
  PROVE  SalesInv'
<1>1. /\ JobFits(job, posOrders) /\ posOrders \in Seq(PosOrderRecords)
      /\ job.step = "add" /\ job.sent = Len(job.lines)
  BY RunningJob DEF ConfirmSale, SalesInv
<1> DEFINE n == Len(posOrders)
<1>2. PICK k, ls : k = job.order /\ ls = posOrders[job.order].lines
  OBVIOUS
<1>3. /\ n \in Nat /\ k \in 1..n /\ posOrders[k] \in PosOrderRecords
      /\ ls \in Seq(SaleLines) /\ job.lines \in Seq(SaleLines) /\ Len(job.lines) > 0
      /\ Len(ls) = Len(job.lines) /\ \A i \in 1..Len(ls) : ls[i] = job.lines[i]
  <2>1. /\ k \in 1..n /\ n \in Nat
        /\ job.lines \in Seq(SaleLines) /\ Len(job.lines) > 0
        /\ Len(ls) = Len(job.lines) /\ \A i \in 1..Len(ls) : ls[i] = job.lines[i]
    BY <1>1, <1>2 DEF JobFits
  <2>2. posOrders[k] \in PosOrderRecords
    BY <1>1, <2>1
  <2>3. ls \in Seq(SaleLines)
    BY <1>2, <2>2 DEF PosOrderRecords
  <2> QED
    BY <2>1, <2>2, <2>3
<1>4. ls = job.lines
  <2>1. PICK a, b : a = ls /\ b = job.lines
    OBVIOUS
  <2>2. /\ a \in Seq(SaleLines) /\ b \in Seq(SaleLines) /\ Len(a) = Len(b)
        /\ \A i \in 1..Len(a) : a[i] = b[i]
    BY <1>3, <2>1
  <2>3. a = b
    BY ONLY <2>2
  <2> QED
    BY <2>1, <2>3
<1>5. /\ posOrders' \in Seq(PosOrderRecords) /\ Len(posOrders') = n
      /\ posOrders'[k].lines = ls
      /\ \A i \in 1..n : i # k => posOrders'[i] = posOrders[i]
  <2>1. CASE reached
    <3>1. PICK o : o = [posOrders[k] EXCEPT !.confirmed = TRUE]
      OBVIOUS
    <3>2. o \in PosOrderRecords /\ o.lines = posOrders[k].lines
      BY ONLY <1>3, <3>1 DEF PosOrderRecords
    <3>3. posOrders' = [posOrders EXCEPT ![k] = o]
      BY <1>2, <2>1, <3>1 DEF ConfirmSale
    <3> QED
      BY <1>1, <1>2, <1>3, <3>2, <3>3
  <2>2. CASE ~reached
    <3>1. posOrders' = posOrders
      BY <2>2 DEF ConfirmSale
    <3> QED
      BY <1>1, <1>2, <1>3, <3>1
  <2> QED
    BY <2>1, <2>2
<1>6. \A i \in 1..Len(posOrders') : posOrders'[i].confirmed => Len(posOrders'[i].lines) > 0
  BY <1>3, <1>5 DEF SalesInv
<1>7. /\ job' = NoJob /\ items' = items
      /\ receipt'.order = k /\ receipt'.lines = job.lines
  BY <1>2 DEF ConfirmSale, ShowReceipt
<1>8. receipt'.order \in 1..Len(posOrders') /\ posOrders'[receipt'.order].lines = receipt'.lines
  BY <1>3, <1>4, <1>5, <1>7
<1> QED
  BY <1>5, <1>6, <1>7, <1>8 DEF SalesInv, LinesFit

LEMMA ResetKeepsSales == ASSUME SalesInv, ResetForNextSale PROVE SalesInv'
<1>1. /\ items' = <<>> /\ receipt' = NoReceipt /\ job' = job /\ posOrders' = posOrders
      /\ job = NoJob
  BY DEF ResetForNextSale, SalesInv, Selling
<1>2. LinesFit(items')
  BY <1>1 DEF LinesFit
<1> QED
  BY <1>1, <1>2 DEF SalesInv

LEMMA SalesStepInv == SalesInv /\ [PosNext]_posVars => SalesInv'
<1> SUFFICES ASSUME SalesInv, [PosNext]_posVars PROVE SalesInv'
  OBVIOUS
<1>1. CASE UNCHANGED posVars
  BY <1>1 DEF posVars, SalesInv, LinesFit
<1>2. CASE \/ \E k \in PosKeys : AddProduct(k) \/ RemoveLine(k)
           \/ \E k \in PosKeys, q \in 0..MaxQty : UpdateQty(k, q)
           \/ \E k \in PosKeys, p \in PosPrices : UpdatePrice(k, p)
  BY <1>2, ScreenStepsKeepSales
<1>3. CASE TypeInTill \/ StartSale \/ SaleRefused \/ ResetForNextSale
  BY <1>3, TillKeepsSales, StartingKeepsSales, RefusalKeepsSales, ResetKeepsSales
<1>4. CASE \/ \E answered \in BOOLEAN : CreateSale(answered) \/ SendLine(answered)
           \/ \E reached \in BOOLEAN : ConfirmSale(reached)
  BY <1>4, CreatingKeepsSales, SendingKeepsSales, ConfirmingKeepsSales
<1> QED
  BY <1>1, <1>2, <1>3, <1>4 DEF PosNext

\* What the receipts show is what the orders hold, and no order that is
\* confirmed is one that an attempt left half sent.
THEOREM SalesAreTold == BackOfficeSpec => []SalesAreWhole
<1>1. BackOfficeInit => SalesInv
  BY SalesInitInv DEF BackOfficeInit
<1>2. SalesInv /\ [BackOfficeNext]_backOfficeVars => SalesInv'
  BY DeskSteps, SalesStepInv
<1>3. SalesInv => SalesAreWhole
  <2> SUFFICES ASSUME SalesInv PROVE SalesAreWhole
    OBVIOUS
  <2>1. ReceiptIsTheOrder
    BY DEF SalesInv, ReceiptIsTheOrder
  <2>2. \A o \in DOMAIN posOrders : posOrders[o].confirmed => posOrders[o].lines # <<>>
    BY DEF SalesInv
  <2>3. job.step = "add" => ~posOrders[job.order].confirmed
    BY RunningJob DEF JobFits
  <2> QED
    BY <2>1, <2>2, <2>3 DEF SalesAreWhole, OnlyWholeSalesConfirmed
<1> QED
  BY <1>1, <1>2, <1>3, PTL DEF BackOfficeSpec

-----------------------------------------------------------------------------
(***************************************************************************)
(* Categories: buildTree walks down from the top level by level, and       *)
(* whether a category is in a circle is found by going up level by level.  *)
(* Both are functions on the numbers that grow a set; they exist, and they *)
(* meet after as many levels as there are ids.  Induction over the numbers *)
(* is by their least elements (WFMin), with a set for the hypothesis.      *)
(***************************************************************************)

\* Numbers that hold nought and with each number the next are all of them.
LEMMA CountingUp ==
  ASSUME NEW S, 0 \in S, \A n \in Nat : n \in S => n + 1 \in S
  PROVE  \A n \in Nat : n \in S
<1> DEFINE R == OpToRel(<, Nat)
           T == {n \in Nat : n \notin S}
<1>1. IsWellFoundedOn(R, Nat)
  BY NatLessThanWellFounded
<1>2. \A x, y \in Nat : y < x => <<y, x>> \in R
  BY DEF OpToRel
<1>3. SUFFICES ASSUME T # {} PROVE FALSE
  OBVIOUS
<1> HIDE DEF R
<1>4. PICK n \in T : \A m \in T : <<m, n>> \notin R
  <2>1. T \subseteq Nat
    OBVIOUS
  <2> HIDE DEF T
  <2> QED
    BY <1>1, <1>3, <2>1, WFMin
<1>5. n \in Nat /\ n # 0 /\ n - 1 \in Nat /\ n - 1 < n
  BY <1>4
<1>6. n - 1 \notin T
  BY <1>2, <1>4, <1>5
<1> QED
  BY <1>4, <1>5, <1>6

\* The first steps of a growing set.
Grows(X, A, G, n, g) ==
    /\ g \in [0..n -> SUBSET X] /\ g[0] = A
    /\ \A i \in 0..(n - 1) : g[i + 1] = g[i] \cup G[g[i]]

LEMMA GrowingBegins ==
  ASSUME NEW X, NEW A \in SUBSET X, NEW G \in [SUBSET X -> SUBSET X]
  PROVE  \A n \in Nat : \E g : Grows(X, A, G, n, g)
<1> DEFINE S == {n \in Nat : \E g : Grows(X, A, G, n, g)}
<1>1. 0 \in S
  <2>1. PICK g : g = [i \in 0..0 |-> A]
    OBVIOUS
  <2>2. Grows(X, A, G, 0, g)
    BY <2>1 DEF Grows
  <2> QED
    BY <2>2
<1>2. ASSUME NEW n \in Nat, n \in S PROVE n + 1 \in S
  <2>1. PICK g : Grows(X, A, G, n, g)
    BY <1>2
  <2>2. PICK h : h = [i \in 0..(n + 1) |-> IF i = n + 1 THEN g[n] \cup G[g[n]] ELSE g[i]]
    OBVIOUS
  <2>3. h \in [0..(n + 1) -> SUBSET X] /\ h[0] = A
    BY <2>1, <2>2 DEF Grows
  <2>4. ASSUME NEW i \in 0..n PROVE h[i + 1] = h[i] \cup G[h[i]]
    <3>1. CASE i = n
      BY <2>2, <3>1
    <3>2. CASE i # n
      <4>1. i \in 0..(n - 1) /\ i + 1 \in 0..n
        BY <3>2
      <4> QED
        BY <2>1, <2>2, <4>1 DEF Grows
    <3> QED
      BY <3>1, <3>2
  <2>5. Grows(X, A, G, n + 1, h)
    BY <2>3, <2>4 DEF Grows
  <2> QED
    BY <2>5
<1> HIDE DEF S
<1>3. \A n \in Nat : n \in S
  BY <1>1, <1>2, CountingUp
<1> QED
  BY <1>3 DEF S

LEMMA GrowingAgrees ==
  ASSUME NEW X, NEW A, NEW G, NEW n \in Nat, NEW g, NEW h,
         Grows(X, A, G, n, g), Grows(X, A, G, n + 1, h)
  PROVE  g[n] = h[n]
<1> DEFINE S == {i \in Nat : i \in 0..n => g[i] = h[i]}
<1>1. 0 \in S
  BY DEF Grows
<1>2. ASSUME NEW i \in Nat, i \in S PROVE i + 1 \in S
  <2>1. SUFFICES ASSUME i + 1 \in 0..n PROVE g[i + 1] = h[i + 1]
    OBVIOUS
  <2>2. i \in 0..(n - 1) /\ i \in 0..((n + 1) - 1) /\ i \in 0..n
    BY <2>1
  <2>3. g[i] = h[i]
    BY <1>2, <2>2
  <2> QED
    BY <2>2, <2>3 DEF Grows
<1> HIDE DEF S
<1>3. \A i \in Nat : i \in S
  BY <1>1, <1>2, CountingUp
<1> QED
  BY <1>3 DEF S

\* A set that grows for ever.
GrowsOn(X, A, G, f) ==
    /\ f \in [Nat -> SUBSET X] /\ f[0] = A
    /\ \A n \in Nat : f[n + 1] = f[n] \cup G[f[n]]

\* There is such a function: a recursive definition is met.
LEMMA GrowingExists ==
  ASSUME NEW X, NEW A \in SUBSET X, NEW G \in [SUBSET X -> SUBSET X]
  PROVE  \E f : GrowsOn(X, A, G, f)
<1> DEFINE c(n) == CHOOSE g : Grows(X, A, G, n, g)
           f == [n \in Nat |-> c(n)[n]]
<1>1. \A n \in Nat : Grows(X, A, G, n, c(n))
  BY GrowingBegins
<1> HIDE DEF c
<1>2. \A n \in Nat : c(n)[n] \in SUBSET X
  BY <1>1 DEF Grows
<1>3. c(0)[0] = A
  BY <1>1 DEF Grows
<1>4. ASSUME NEW n \in Nat PROVE c(n + 1)[n + 1] = c(n)[n] \cup G[c(n)[n]]
  <2>1. Grows(X, A, G, n, c(n)) /\ Grows(X, A, G, n + 1, c(n + 1))
    BY <1>1
  <2>2. c(n)[n] = c(n + 1)[n]
    BY <2>1, GrowingAgrees
  <2>3. n \in 0..((n + 1) - 1)
    OBVIOUS
  <2> QED
    BY <2>1, <2>2, <2>3 DEF Grows
<1>5. f \in [Nat -> SUBSET X]
  BY <1>2
<1>6. f[0] = A
  BY <1>3
<1>7. \A n \in Nat : f[n + 1] = f[n] \cup G[f[n]]
  BY <1>4
<1> QED
  BY <1>5, <1>6, <1>7 DEF GrowsOn

\* Level by level: what hangs under something outside, and where one gets to
\* by going up.
HangsBelow(S, p, D) ==
    /\ D \in [Nat -> SUBSET S] /\ D[0] = {c \in S : p[c] \notin S}
    /\ \A n \in Nat : D[n + 1] = D[n] \cup {c \in S : p[c] \in D[n]}

ClimbsFrom(S, p, U) ==
    \A c \in S : /\ U[c][0] = {c}
                 /\ \A n \in Nat : U[c][n + 1] = U[c][n] \cup {p[d] : d \in U[c][n] \cap S}

DrawnUnlessCircling(S, N, D, U) == D[N] = {c \in S : ~(U[c][N] \subseteq S)}

\* What hangs under something outside, level by level, is what one leaves
\* the set from by going up.
LEMMA HangingMeetsClimbing ==
  ASSUME NEW S, IsFiniteSet(S), NEW p, NEW N \in Nat, Cardinality(S) <= N,
         NEW D, NEW U, HangsBelow(S, p, D), ClimbsFrom(S, p, U)
  PROVE  DrawnUnlessCircling(S, N, D, U)
<1> USE DEF HangsBelow, ClimbsFrom
<1> DEFINE Begins == {n \in Nat : \A c \in S : c \in U[c][n]}
           Shifts == {n \in Nat : \A c \in S : p[c] \in S => U[c][n + 1] = {c} \cup U[p[c]][n]}
           Below == {n \in Nat : D[0] \subseteq D[n]}
           Meets == {n \in Nat : \A c \in S : c \in D[n] <=> ~(U[c][n + 1] \subseteq S)}
           Fills == {n \in Nat : D[n + 1] = D[n] \/ Cardinality(D[n]) >= n + 1}
<1>1. \A n \in Nat : n \in Begins
  <2>1. 0 \in Begins
    OBVIOUS
  <2>2. \A n \in Nat : n \in Begins => n + 1 \in Begins
    OBVIOUS
  <2> HIDE DEF Begins
  <2> QED
    BY <2>1, <2>2, CountingUp
<1>2. \A n \in Nat : n \in Shifts
  <2>1. 0 \in Shifts
    <3>1. ASSUME NEW c \in S, p[c] \in S PROVE U[c][0 + 1] = {c} \cup U[p[c]][0]
      <4>1. U[c][0 + 1] = U[c][0] \cup {p[d] : d \in U[c][0] \cap S}
        OBVIOUS
      <4>2. U[c][0] = {c} /\ U[p[c]][0] = {p[c]}
        BY <3>1
      <4> QED
        BY <4>1, <4>2
    <3> QED
      BY <3>1
  <2>2. ASSUME NEW n \in Nat, n \in Shifts PROVE n + 1 \in Shifts
    <3>1. ASSUME NEW c \in S, p[c] \in S PROVE U[c][(n + 1) + 1] = {c} \cup U[p[c]][n + 1]
      <4>1. U[c][(n + 1) + 1] = U[c][n + 1] \cup {p[d] : d \in U[c][n + 1] \cap S}
        OBVIOUS
      <4>2. U[c][n + 1] = {c} \cup U[p[c]][n]
        BY <2>2, <3>1
      <4>3. U[p[c]][n + 1] = U[p[c]][n] \cup {p[d] : d \in U[p[c]][n] \cap S}
        BY <3>1
      <4>4. p[c] \in U[p[c]][n]
        BY <1>1, <3>1
      <4> QED
        BY <4>1, <4>2, <4>3, <4>4
    <3> QED
      BY <3>1
  <2> HIDE DEF Shifts
  <2> QED
    BY <2>1, <2>2, CountingUp
<1>3. \A n \in Nat : n \in Below
  <2>1. 0 \in Below
    OBVIOUS
  <2>2. \A n \in Nat : n \in Below => n + 1 \in Below
    OBVIOUS
  <2> HIDE DEF Below
  <2> QED
    BY <2>1, <2>2, CountingUp
<1>4. \A n \in Nat : n \in Meets
  <2>1. 0 \in Meets
    <3>1. ASSUME NEW c \in S PROVE U[c][0 + 1] = {c, p[c]}
      <4>1. U[c][0 + 1] = U[c][0] \cup {p[d] : d \in U[c][0] \cap S}
        OBVIOUS
      <4>2. U[c][0] = {c}
        OBVIOUS
      <4> QED
        BY <4>1, <4>2
    <3> QED
      BY <3>1
  <2>2. ASSUME NEW n \in Nat, n \in Meets PROVE n + 1 \in Meets
    <3>1. ASSUME NEW c \in S PROVE c \in D[n + 1] <=> ~(U[c][(n + 1) + 1] \subseteq S)
      <4>1. D[n + 1] = D[n] \cup {d \in S : p[d] \in D[n]}
        OBVIOUS
      <4>2. CASE p[c] \in S
        <5>1. U[c][(n + 1) + 1] = {c} \cup U[p[c]][n + 1]
          <6>1. n + 1 \in Shifts
            <7> HIDE DEF Shifts
            <7> QED
              BY <1>2
          <6> QED
            BY <4>2, <6>1
        <5>2. p[c] \in D[n] <=> ~(U[p[c]][n + 1] \subseteq S)
          BY <2>2, <4>2
        <5>3. c \in D[n] => ~(U[c][n + 1] \subseteq S)
          BY <2>2
        <5>4. U[c][n + 1] \subseteq U[c][(n + 1) + 1]
          OBVIOUS
        <5> QED
          BY <4>1, <5>1, <5>2, <5>3, <5>4
      <4>3. CASE p[c] \notin S
        <5>1. c \in D[n]
          BY <1>3, <4>3
        <5>2. ~(U[c][n + 1] \subseteq S)
          BY <2>2, <5>1
        <5>3. U[c][n + 1] \subseteq U[c][(n + 1) + 1]
          OBVIOUS
        <5> QED
          BY <4>1, <5>1, <5>2, <5>3
      <4> QED
        BY <4>2, <4>3
    <3> QED
      BY <3>1
  <2> HIDE DEF Meets
  <2> QED
    BY <2>1, <2>2, CountingUp
<1>5. \A n \in Nat : IsFiniteSet(D[n]) /\ Cardinality(D[n]) \in Nat /\ Cardinality(D[n]) <= Cardinality(S)
  BY FS_Subset, FS_CardinalityType
<1>6. \A n \in Nat : n \in Fills
  <2>1. 0 \in Fills
    <3>1. CASE D[0] = {}
      <4>1. D[0 + 1] = D[0] \cup {c \in S : p[c] \in D[0]}
        OBVIOUS
      <4> QED
        BY <3>1, <4>1
    <3>2. CASE D[0] # {}
      <4>1. IsFiniteSet(D[0]) /\ Cardinality(D[0]) \in Nat
        BY <1>5
      <4>2. Cardinality(D[0]) # 0
        BY <3>2, <4>1, FS_EmptySet
      <4>3. Cardinality(D[0]) >= 0 + 1
        BY <4>1, <4>2
      <4> QED
        BY <4>3
    <3> QED
      BY <3>1, <3>2
  <2>2. ASSUME NEW n \in Nat, n \in Fills PROVE n + 1 \in Fills
    <3>1. D[n + 1] = D[n] \cup {d \in S : p[d] \in D[n]}
      OBVIOUS
    <3>2. D[(n + 1) + 1] = D[n + 1] \cup {d \in S : p[d] \in D[n + 1]}
      OBVIOUS
    <3>3. CASE D[n + 1] = D[n]
      <4>1. D[(n + 1) + 1] = D[n + 1]
        BY <3>1, <3>2, <3>3
      <4> QED
        BY <4>1
    <3>4. CASE D[n + 1] # D[n]
      <4>1. Cardinality(D[n]) >= n + 1
        BY <2>2, <3>4
      <4>2. D[n] \subseteq D[n + 1] /\ IsFiniteSet(D[n + 1])
        <5>1. D[n] \subseteq D[n + 1]
          BY <3>1
        <5>2. n + 1 \in Nat
          OBVIOUS
        <5>3. IsFiniteSet(D[n + 1])
          BY ONLY <1>5, <5>2
        <5> QED
          BY <5>1, <5>3
      <4>3. Cardinality(D[n]) < Cardinality(D[n + 1])
        <5>1. Cardinality(D[n]) <= Cardinality(D[n + 1]) /\ Cardinality(D[n]) # Cardinality(D[n + 1])
          BY <1>5, <3>4, <4>2, FS_Subset
        <5> QED
          BY <1>5, <5>1
      <4> QED
        BY <1>5, <4>1, <4>3
    <3> QED
      BY <3>3, <3>4
  <2> HIDE DEF Fills
  <2> QED
    BY <2>1, <2>2, CountingUp
<1>7. CASE N = 0
  <2>1. S = {}
    BY <1>7, FS_EmptySet, FS_CardinalityType
  <2> QED
    BY <1>7, <2>1 DEF DrawnUnlessCircling
<1>8. CASE N # 0
  <2>1. PICK n \in Nat : N = n + 1
    <3>1. N - 1 \in Nat /\ N = (N - 1) + 1
      BY <1>8
    <3> QED
      BY <3>1
  <2>2. D[n + 1] = D[n]
    <3>1. D[n + 1] = D[n] \/ Cardinality(D[n]) >= n + 1
      BY <1>6
    <3>2. CASE Cardinality(D[n]) >= n + 1
      <4>1. Cardinality(D[n]) = Cardinality(S)
        BY <1>5, <2>1, <3>2, FS_CardinalityType
      <4>2. D[n] = S
        <5>1. D[n] \subseteq S
          OBVIOUS
        <5> QED
          BY <4>1, <5>1, FS_Subset
      <4>3. D[n] \subseteq D[n + 1] /\ D[n + 1] \subseteq S
        OBVIOUS
      <4> QED
        BY <4>2, <4>3
    <3> QED
      BY <3>1, <3>2
  <2>3. \A c \in S : c \in D[n] <=> ~(U[c][n + 1] \subseteq S)
    BY <1>4
  <2>4. D[n] \subseteq S
    OBVIOUS
  <2> QED
    BY <2>1, <2>2, <2>3, <2>4 DEF DrawnUnlessCircling
<1> QED
  BY <1>7, <1>8

\* The table draws exactly what is not in a circle, in every state.
LEMMA TableDrawsAll ==
  ASSUME NEW shown \in SUBSET CatIds
  PROVE  BuildTree(shown) = {c \in shown : ~OnACycle(c, shown)}
<1> DEFINE N == Cardinality(CatIds)
           p == [c \in CatIds |-> catDesk.list[c].parent]
           roots == {c \in shown : ~HangsUnder(c, shown)}
           IsDown(f) == f = [n \in Nat |->
                           IF n = 0 THEN roots
                           ELSE f[n - 1] \cup {c \in shown : catDesk.list[c].parent \in f[n - 1]}]
           IsUp(c, f) == f = [n \in Nat |->
                           IF n = 0 THEN {c}
                           ELSE f[n - 1] \cup {catDesk.list[d].parent : d \in f[n - 1] \cap shown}]
           D == CHOOSE f : IsDown(f)
           Climb(c) == CHOOSE f : IsUp(c, f)
           U == [c \in shown |-> Climb(c)]
<1>1. BuildTree(shown) = D[N]
  BY DEF BuildTree
<1>2. \A c : OnACycle(c, shown) <=> Climb(c)[N] \subseteq shown
  BY DEF OnACycle
<1>3. \E f : IsDown(f)
  <2> DEFINE G == [Y \in SUBSET shown |-> {c \in shown : catDesk.list[c].parent \in Y}]
  <2>1. roots \in SUBSET shown /\ G \in [SUBSET shown -> SUBSET shown]
    OBVIOUS
  <2> HIDE DEF G, roots
  <2>2. PICK f : GrowsOn(shown, roots, G, f)
    BY <2>1, GrowingExists
  <2>3. ASSUME NEW n \in Nat, n # 0
        PROVE  f[n] = f[n - 1] \cup {c \in shown : catDesk.list[c].parent \in f[n - 1]}
    <3>1. n - 1 \in Nat /\ (n - 1) + 1 = n
      BY <2>3
    <3>2. f[n] = f[n - 1] \cup G[f[n - 1]]
      BY <2>2, <3>1 DEF GrowsOn
    <3>3. f[n - 1] \in SUBSET shown
      BY <2>2, <3>1 DEF GrowsOn
    <3> QED
      BY <3>2, <3>3 DEF G
  <2>4. IsDown(f)
    BY <2>2, <2>3 DEF GrowsOn
  <2> QED
    BY <2>4
<1>4. IsDown(D)
  <2> HIDE DEF IsDown
  <2> QED
    BY <1>3
<1>5. ASSUME NEW c \in shown PROVE \E f : IsUp(c, f)
  <2> DEFINE X == shown \cup {catDesk.list[d].parent : d \in shown}
             G == [Y \in SUBSET X |-> {catDesk.list[d].parent : d \in Y \cap shown}]
  <2>1. {c} \in SUBSET X /\ G \in [SUBSET X -> SUBSET X]
    OBVIOUS
  <2> HIDE DEF G, X
  <2>2. PICK f : GrowsOn(X, {c}, G, f)
    BY <2>1, GrowingExists
  <2>3. ASSUME NEW n \in Nat, n # 0
        PROVE  f[n] = f[n - 1] \cup {catDesk.list[d].parent : d \in f[n - 1] \cap shown}
    <3>1. n - 1 \in Nat /\ (n - 1) + 1 = n
      BY <2>3
    <3>2. f[n] = f[n - 1] \cup G[f[n - 1]]
      BY <2>2, <3>1 DEF GrowsOn
    <3>3. f[n - 1] \in SUBSET X
      BY <2>2, <3>1 DEF GrowsOn
    <3> QED
      BY <3>2, <3>3 DEF G
  <2>4. IsUp(c, f)
    BY <2>2, <2>3 DEF GrowsOn
  <2> QED
    BY <2>4
<1>6. \A c \in shown : IsUp(c, Climb(c))
  <2> HIDE DEF IsUp
  <2> QED
    BY <1>5
<1> HIDE DEF D, Climb
<1>7. HangsBelow(shown, p, D)
  <2>1. D[0] = {c \in shown : p[c] \notin shown}
    BY <1>4 DEF HangsUnder
  <2>2. ASSUME NEW n \in Nat PROVE D[n + 1] = D[n] \cup {c \in shown : catDesk.list[c].parent \in D[n]}
    <3>1. n + 1 \in Nat /\ n + 1 # 0 /\ (n + 1) - 1 = n
      OBVIOUS
    <3> QED
      BY <1>4, <3>1
  <2>3. \A n \in Nat : D[n + 1] = D[n] \cup {c \in shown : p[c] \in D[n]}
    BY <2>2
  <2>4. \A n \in Nat : n \in {m \in Nat : D[m] \subseteq shown}
    <3> DEFINE T == {m \in Nat : D[m] \subseteq shown}
    <3>1. 0 \in T
      BY <2>1
    <3>2. ASSUME NEW n \in Nat, n \in T PROVE n + 1 \in T
      <4>1. D[n + 1] = D[n] \cup {c \in shown : catDesk.list[c].parent \in D[n]}
        BY <2>2
      <4>2. D[n + 1] \subseteq shown
        BY <3>2, <4>1
      <4> QED
        BY <4>2
    <3> HIDE DEF T
    <3>3. \A n \in Nat : n \in T
      BY <3>1, <3>2, CountingUp
    <3> QED
      BY <3>3 DEF T
  <2>5. D = [n \in Nat |-> D[n]]
    BY <1>4
  <2> QED
    BY <2>1, <2>3, <2>4, <2>5 DEF HangsBelow
<1>8. ClimbsFrom(shown, p, U)
  <2>1. ASSUME NEW c \in shown PROVE U[c][0] = {c}
    BY <1>6
  <2>2. ASSUME NEW c \in shown, NEW n \in Nat
        PROVE  U[c][n + 1] = U[c][n] \cup {p[d] : d \in U[c][n] \cap shown}
    <3>1. n + 1 \in Nat /\ n + 1 # 0 /\ (n + 1) - 1 = n
      OBVIOUS
    <3>2. U[c][n + 1] = U[c][n] \cup {catDesk.list[d].parent : d \in U[c][n] \cap shown}
      BY <1>6, <3>1
    <3> QED
      BY <3>2
  <2> HIDE DEF U, p
  <2> QED
    BY <2>1, <2>2 DEF ClimbsFrom
<1>9. IsFiniteSet(shown) /\ N \in Nat /\ Cardinality(shown) <= N
  BY CategoryAssumption, FS_Subset, FS_CardinalityType DEF CategoryAssumption
<1> HIDE DEF p, U, N
<1>10. DrawnUnlessCircling(shown, N, D, U)
  BY <1>7, <1>8, <1>9, HangingMeetsClimbing
<1>11. \A c \in shown : U[c] = Climb(c)
  BY DEF U
<1> QED
  BY <1>1, <1>2, <1>10, <1>11 DEF DrawnUnlessCircling

\* Whatever the list of the desk holds, every category of the chosen tab has
\* a row, except those whose parents go round in a circle.
THEOREM RowsAreComplete == BackOfficeSpec => []CategoryRowsComplete
<1>1. CategoryRowsComplete
  <2> SUFFICES ASSUME NEW tab \in {"all", "active", "inactive"}
               PROVE  CategoryRow(tab) = {c \in Filtered(tab) : ~OnACycle(c, Filtered(tab))}
    BY DEF CategoryRowsComplete
  <2>1. Filtered(tab) \in SUBSET CatIds
    BY DEF Filtered, Here
  <2> QED
    BY <2>1, TableDrawsAll DEF CategoryRow
<1> QED
  BY <1>1, PTL

=============================================================================
