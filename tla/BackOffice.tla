------------------------------ MODULE BackOffice ------------------------------
(***************************************************************************)
(* The administrators' side of the frontend: the desks of a shop and those *)
(* of the platform.  Each desk keeps its own state in the page that is     *)
(* open and talks to its own service, so a behaviour keeps to one desk,    *)
(* and every desk is some behaviour's.                                     *)
(***************************************************************************)
EXTENDS PointOfSale, CategoryDesk, ProductDesk, PromotionDesk, InventoryDesk,
        StoreSettings, PlatformSettings, PlatformPlans

VARIABLE desk \* the desk this behaviour is about

Desks == {"sales", "categories", "products", "promotions", "inventory",
          "settings", "platform settings", "plans"}

shopDeskVars == <<posVars, categoryVars, productDeskVars, promotionVars, stockVars, storeSettingsVars>>
backOfficeVars == <<desk, shopDeskVars, platformSettingsVars, platformPlansVars>>

BackOfficeInit ==
    /\ desk \in Desks
    /\ PosInit /\ CategoryInit /\ ProductDeskInit /\ PromotionInit /\ StockInit
    /\ StoreSettingsInit /\ PlatformSettingsInit /\ PlatformPlansInit

UseSales ==
    /\ desk = "sales" /\ PosNext
    /\ UNCHANGED <<desk, categoryVars, productDeskVars, promotionVars, stockVars, storeSettingsVars>>
    /\ UNCHANGED <<platformSettingsVars, platformPlansVars>>

UseCategories ==
    /\ desk = "categories" /\ CategoryNext
    /\ UNCHANGED <<desk, posVars, productDeskVars, promotionVars, stockVars, storeSettingsVars>>
    /\ UNCHANGED <<platformSettingsVars, platformPlansVars>>

UseProducts ==
    /\ desk = "products" /\ ProductDeskNext
    /\ UNCHANGED <<desk, posVars, categoryVars, promotionVars, stockVars, storeSettingsVars>>
    /\ UNCHANGED <<platformSettingsVars, platformPlansVars>>

UsePromotions ==
    /\ desk = "promotions" /\ PromotionNext
    /\ UNCHANGED <<desk, posVars, categoryVars, productDeskVars, stockVars, storeSettingsVars>>
    /\ UNCHANGED <<platformSettingsVars, platformPlansVars>>

UseInventory ==
    /\ desk = "inventory" /\ StockNext
    /\ UNCHANGED <<desk, posVars, categoryVars, productDeskVars, promotionVars, storeSettingsVars>>
    /\ UNCHANGED <<platformSettingsVars, platformPlansVars>>

UseSettings ==
    /\ desk = "settings" /\ StoreSettingsNext
    /\ UNCHANGED <<desk, posVars, categoryVars, productDeskVars, promotionVars, stockVars>>
    /\ UNCHANGED <<platformSettingsVars, platformPlansVars>>

UsePlatformSettings ==
    /\ desk = "platform settings" /\ PlatformSettingsNext
    /\ UNCHANGED <<desk, shopDeskVars, platformPlansVars>>

UsePlans ==
    /\ desk = "plans" /\ PlatformPlansNext
    /\ UNCHANGED <<desk, shopDeskVars, platformSettingsVars>>

BackOfficeNext ==
    \/ UseSales \/ UseCategories \/ UseProducts \/ UsePromotions \/ UseInventory
    \/ UseSettings \/ UsePlatformSettings \/ UsePlans

BackOfficeSpec == BackOfficeInit /\ [][BackOfficeNext]_backOfficeVars

-----------------------------------------------------------------------------
(* While nothing failed and no request overlapped another, the categories  *)
(* and the products an administrator sees at rest are those the product    *)
(* service has: every write was followed by an answer that shows it.       *)
CalmDesksShowWhatIsServed == CalmListIsServed /\ CalmProductsAreServed
=============================================================================
