------------------------- MODULE NocaiSessionProofs -------------------------
(***************************************************************************)
(* NocaiSession for every number of printers, lines, offsets, heights and  *)
(* crashes and both builds: SessionInv is inductive (one lemma per action, *)
(* one step per part of SessionInv), the safety properties follow from it, *)
(* and every behaviour is one of VendorSequence.                           *)
(***************************************************************************)
EXTENDS NocaiSession, TLAPS


\* Values a reset or a request puts in.
LEMMA Ranges ==
    /\ 0 \in Offsets /\ 0 \in 0 .. MaxPrinters /\ 0 \in 0 .. Lines
    /\ None \in Printers \cup {None} /\ None \in Heights \cup {None}
    BY SessionAssumption DEF Offsets

\* choosePrinter's index is one of the list, or none.
LEMMA WantedInRange ==
    ASSUME TypeOK
    PROVE  Wanted \in Printers \cup {None}
<1>1. req.printer \in Printers \cup {None}
    BY DEF TypeOK, Ask
<1>2. found = 1 => 0 \in Printers
    BY SessionAssumption DEF TypeOK, Printers
<1>3. selected \in Printers \cup {None}
    BY DEF TypeOK
<1>4. QED
    BY <1>1, <1>2, <1>3 DEF Wanted, Asked

\* IsAvailable keeps the inductive invariant.
LEMMA IsAvailableKeeps ==
    ASSUME SessionInv, IsAvailable
    PROVE  SessionInv'
<1>1. TypeOK'
    BY Ranges DEF SessionInv, TypeOK, IsAvailable, EnsureLoaded, clientVars, vendorVars,
       tableVars, procVars, jobVars
<1>2. pc' = "send" => line' < Lines
    BY DEF SessionInv, TypeOK, IsAvailable, EnsureLoaded, clientVars, vendorVars,
       tableVars, procVars, jobVars
<1>3. ViewIsTrue'
    BY DEF SessionInv, TypeOK, ViewIsTrue, ProcessInv, JobPlaces, None, IsAvailable,
       EnsureLoaded, clientVars, vendorVars, tableVars, procVars, jobVars
<1>4. RemembersItsSession'
    BY DEF SessionInv, TypeOK, ViewIsTrue, RemembersItsSession, ProcessInv, JobPlaces,
       None, IsAvailable, EnsureLoaded, clientVars, vendorVars, tableVars, procVars,
       jobVars
<1>5. ProcessInv'
    BY DEF SessionInv, ProcessInv, JobPlaces, None, IsAvailable, EnsureLoaded, clientVars,
       vendorVars, tableVars, procVars, jobVars
<1>6. DataInv'
    BY DEF SessionInv, ProcessInv, DataInv, JobPlaces, IsAvailable, EnsureLoaded,
       clientVars, vendorVars, tableVars, procVars, jobVars
<1>7. OffsetInv'
    BY DEF SessionInv, ProcessInv, OffsetInv, JobPlaces, IsAvailable, EnsureLoaded,
       clientVars, vendorVars, tableVars, procVars, jobVars
<1>8. QED
    BY <1>1, <1>2, <1>3, <1>4, <1>5, <1>6, <1>7 DEF SessionInv

\* Configure keeps the inductive invariant.
LEMMA ConfigureKeeps ==
    ASSUME SessionInv, Configure
    PROVE  SessionInv'
<1>1. TypeOK'
    BY Ranges DEF SessionInv, TypeOK, Configure, UnloadSdkSession, Forgotten, clientVars,
       vendorVars, tableVars, procVars, jobVars
<1>2. pc' = "send" => line' < Lines
    BY DEF SessionInv, TypeOK, Configure, UnloadSdkSession, Forgotten, clientVars,
       vendorVars, tableVars, procVars, jobVars
<1>3. ViewIsTrue'
    BY DEF SessionInv, TypeOK, ViewIsTrue, ProcessInv, JobPlaces, None, Configure,
       UnloadSdkSession, Forgotten, clientVars, vendorVars, tableVars, procVars, jobVars
<1>4. RemembersItsSession'
    BY DEF SessionInv, TypeOK, ViewIsTrue, RemembersItsSession, ProcessInv, JobPlaces,
       None, Configure, UnloadSdkSession, Forgotten, clientVars, vendorVars, tableVars,
       procVars, jobVars
<1>5. ProcessInv'
    BY DEF SessionInv, ProcessInv, JobPlaces, None, Configure, UnloadSdkSession,
       Forgotten, clientVars, vendorVars, tableVars, procVars, jobVars
<1>6. DataInv'
    BY DEF SessionInv, ProcessInv, DataInv, JobPlaces, Configure, UnloadSdkSession,
       Forgotten, clientVars, vendorVars, tableVars, procVars, jobVars
<1>7. OffsetInv'
    BY DEF SessionInv, ProcessInv, OffsetInv, JobPlaces, Configure, UnloadSdkSession,
       Forgotten, clientVars, vendorVars, tableVars, procVars, jobVars
<1>8. QED
    BY <1>1, <1>2, <1>3, <1>4, <1>5, <1>6, <1>7 DEF SessionInv

\* PrintNozzleCheck keeps the inductive invariant.
LEMMA PrintNozzleCheckKeeps ==
    ASSUME SessionInv, PrintNozzleCheck
    PROVE  SessionInv'
<1>1. TypeOK'
    BY Ranges DEF SessionInv, TypeOK, PrintNozzleCheck, EnsureLoaded, MayWrite,
       clientVars, vendorVars, tableVars, procVars, jobVars
<1>2. pc' = "send" => line' < Lines
    BY DEF SessionInv, TypeOK, PrintNozzleCheck, EnsureLoaded, MayWrite, clientVars,
       vendorVars, tableVars, procVars, jobVars
<1>3. ViewIsTrue'
    BY DEF SessionInv, TypeOK, ViewIsTrue, ProcessInv, JobPlaces, None, PrintNozzleCheck,
       EnsureLoaded, MayWrite, clientVars, vendorVars, tableVars, procVars, jobVars
<1>4. RemembersItsSession'
    BY DEF SessionInv, TypeOK, ViewIsTrue, RemembersItsSession, ProcessInv, JobPlaces,
       None, PrintNozzleCheck, EnsureLoaded, MayWrite, clientVars, vendorVars, tableVars,
       procVars, jobVars
<1>5. ProcessInv'
    BY DEF SessionInv, ProcessInv, JobPlaces, None, PrintNozzleCheck, EnsureLoaded,
       MayWrite, clientVars, vendorVars, tableVars, procVars, jobVars
<1>6. DataInv'
    BY DEF SessionInv, ProcessInv, DataInv, JobPlaces, PrintNozzleCheck, EnsureLoaded,
       MayWrite, clientVars, vendorVars, tableVars, procVars, jobVars
<1>7. OffsetInv'
    BY DEF SessionInv, ProcessInv, OffsetInv, JobPlaces, PrintNozzleCheck, EnsureLoaded,
       MayWrite, clientVars, vendorVars, tableVars, procVars, jobVars
<1>8. QED
    BY <1>1, <1>2, <1>3, <1>4, <1>5, <1>6, <1>7 DEF SessionInv

\* AbortPrint keeps the inductive invariant.
LEMMA AbortPrintKeeps ==
    ASSUME SessionInv, AbortPrint
    PROVE  SessionInv'
<1>1. TypeOK'
    BY Ranges DEF SessionInv, TypeOK, AbortPrint, EnsureLoaded, clientVars, vendorVars,
       tableVars, procVars, jobVars
<1>2. pc' = "send" => line' < Lines
    BY DEF SessionInv, TypeOK, AbortPrint, EnsureLoaded, clientVars, vendorVars,
       tableVars, procVars, jobVars
<1>3. ViewIsTrue'
    BY DEF SessionInv, TypeOK, ViewIsTrue, ProcessInv, JobPlaces, None, AbortPrint,
       EnsureLoaded, clientVars, vendorVars, tableVars, procVars, jobVars
<1>4. RemembersItsSession'
    BY DEF SessionInv, TypeOK, ViewIsTrue, RemembersItsSession, ProcessInv, JobPlaces,
       None, AbortPrint, EnsureLoaded, clientVars, vendorVars, tableVars, procVars,
       jobVars
<1>5. ProcessInv'
    BY DEF SessionInv, ProcessInv, JobPlaces, None, AbortPrint, EnsureLoaded, clientVars,
       vendorVars, tableVars, procVars, jobVars
<1>6. DataInv'
    BY DEF SessionInv, ProcessInv, DataInv, JobPlaces, AbortPrint, EnsureLoaded,
       clientVars, vendorVars, tableVars, procVars, jobVars
<1>7. OffsetInv'
    BY DEF SessionInv, ProcessInv, OffsetInv, JobPlaces, AbortPrint, EnsureLoaded,
       clientVars, vendorVars, tableVars, procVars, jobVars
<1>8. QED
    BY <1>1, <1>2, <1>3, <1>4, <1>5, <1>6, <1>7 DEF SessionInv

\* RefreshPrinters keeps the inductive invariant.
LEMMA RefreshPrintersKeeps ==
    ASSUME SessionInv, RefreshPrinters
    PROVE  SessionInv'
<1>1. TypeOK'
    <2>1. connected' \in BOOLEAN /\ lib' \in {"unloaded", "loaded", "wedged"}
        BY DEF SessionInv, TypeOK, RefreshPrinters, FreshSearch, EnsureLoaded, clientVars
    <2>2. /\ selected' \in Printers \cup {None} /\ chosen' \in Printers \cup {None}
         /\ found' \in 0 .. MaxPrinters
        BY Ranges DEF SessionInv, TypeOK, RefreshPrinters, FreshSearch, clientVars
    <2>3. /\ pc' \in {"idle", "exit", "choose", "search"} /\ result' \in BOOLEAN
         /\ worker' \in {"none", "starting", "printing"}
        BY DEF SessionInv, TypeOK, RefreshPrinters, AfterSearch, Return, Goto
    <2>4. QED
        BY <2>1, <2>2, <2>3 DEF SessionInv, TypeOK, RefreshPrinters, clientVars,
           vendorVars, tableVars, procVars, jobVars
<1>2. pc' = "send" => line' < Lines
    BY DEF SessionInv, TypeOK, RefreshPrinters, EnsureLoaded, KeepsSession, FreshSearch,
       AfterSearch, Goto, Return, clientVars, vendorVars, tableVars, procVars, jobVars
<1>3. ViewIsTrue'
    BY DEF SessionInv, TypeOK, ViewIsTrue, ProcessInv, JobPlaces, None, RefreshPrinters,
       EnsureLoaded, KeepsSession, FreshSearch, AfterSearch, Goto, Return, clientVars,
       vendorVars, tableVars, procVars, jobVars
<1>4. RemembersItsSession'
    BY DEF SessionInv, TypeOK, ViewIsTrue, RemembersItsSession, ProcessInv, JobPlaces,
       None, RefreshPrinters, EnsureLoaded, KeepsSession, FreshSearch, AfterSearch, Goto,
       Return, clientVars, vendorVars, tableVars, procVars, jobVars
<1>5. ProcessInv'
    BY DEF SessionInv, ProcessInv, JobPlaces, None, RefreshPrinters, EnsureLoaded,
       KeepsSession, FreshSearch, AfterSearch, Goto, Return, clientVars, vendorVars,
       tableVars, procVars, jobVars
<1>6. DataInv'
    BY DEF SessionInv, ProcessInv, DataInv, JobPlaces, RefreshPrinters, EnsureLoaded,
       KeepsSession, FreshSearch, AfterSearch, Goto, Return, clientVars, vendorVars,
       tableVars, procVars, jobVars
<1>7. OffsetInv'
    BY DEF SessionInv, ProcessInv, OffsetInv, JobPlaces, RefreshPrinters, EnsureLoaded,
       KeepsSession, FreshSearch, AfterSearch, Goto, Return, clientVars, vendorVars,
       tableVars, procVars, jobVars
<1>8. QED
    BY <1>1, <1>2, <1>3, <1>4, <1>5, <1>6, <1>7 DEF SessionInv

\* ChoosePrinter keeps the inductive invariant.
LEMMA ChoosePrinterKeeps ==
    ASSUME SessionInv, ChoosePrinter
    PROVE  SessionInv'
<1>1. TypeOK'
    <2>1. connected' \in BOOLEAN /\ rechosen' \in BOOLEAN
        BY DEF SessionInv, TypeOK, ChoosePrinter
    <2>2. selected' \in Printers \cup {None} /\ chosen' \in Printers \cup {None}
        BY WantedInRange DEF SessionInv, TypeOK, ChoosePrinter
    <2>3. pc' \in {"idle", "exit", "connect"} /\ result' \in BOOLEAN
        BY DEF SessionInv, TypeOK, ChoosePrinter, AfterChoice, Return, Goto
    <2>4. lib' \in {"unloaded", "loaded", "wedged"}
        BY DEF SessionInv, TypeOK, ChoosePrinter, EnsureLoaded
    <2>5. UNCHANGED <<found, control, data, origin, tableVars, req, jobVars, procVars>>
        BY DEF ChoosePrinter
    <2>6. QED
        BY <2>1, <2>2, <2>3, <2>4, <2>5 DEF SessionInv, TypeOK, tableVars, procVars, jobVars
<1>2. pc' = "send" => line' < Lines
    BY DEF SessionInv, TypeOK, ChoosePrinter, EnsureLoaded, AfterChoice, Goto, Return,
       clientVars, vendorVars, tableVars, procVars, jobVars
<1>3. ViewIsTrue'
    BY DEF SessionInv, TypeOK, ViewIsTrue, ProcessInv, JobPlaces, None, ChoosePrinter,
       EnsureLoaded, AfterChoice, Goto, Return, clientVars, vendorVars, tableVars,
       procVars, jobVars, Wanted, Asked, Ask, Printers
<1>4. RemembersItsSession'
    BY DEF SessionInv, TypeOK, ViewIsTrue, RemembersItsSession, ProcessInv, JobPlaces,
       None, ChoosePrinter, EnsureLoaded, AfterChoice, Goto, Return, clientVars,
       vendorVars, tableVars, procVars, jobVars
<1>5. ProcessInv'
    BY DEF SessionInv, ProcessInv, JobPlaces, None, ChoosePrinter, EnsureLoaded,
       AfterChoice, Goto, Return, clientVars, vendorVars, tableVars, procVars, jobVars
<1>6. DataInv'
    BY DEF SessionInv, ProcessInv, DataInv, JobPlaces, ChoosePrinter, EnsureLoaded,
       AfterChoice, Goto, Return, clientVars, vendorVars, tableVars, procVars, jobVars
<1>7. OffsetInv'
    BY DEF SessionInv, ProcessInv, OffsetInv, JobPlaces, ChoosePrinter, EnsureLoaded,
       AfterChoice, Goto, Return, clientVars, vendorVars, tableVars, procVars, jobVars
<1>8. QED
    BY <1>1, <1>2, <1>3, <1>4, <1>5, <1>6, <1>7 DEF SessionInv

\* ConnectPrinter keeps the inductive invariant.
LEMMA ConnectPrinterKeeps ==
    ASSUME SessionInv, ConnectPrinter
    PROVE  SessionInv'
<1>1. TypeOK'
    <2>1. connected' \in BOOLEAN /\ rechosen' \in BOOLEAN
        BY DEF SessionInv, TypeOK, ConnectPrinter
    <2>2. selected' \in Printers \cup {None} /\ control' \in Printers \cup {None}
        BY Ranges DEF SessionInv, TypeOK, ConnectPrinter
    <2>3. pc' \in {"idle", "exit", "height"} /\ result' \in BOOLEAN
        BY DEF SessionInv, TypeOK, ConnectPrinter, AfterConnection, Return, Goto
    <2>4. QED
        BY <2>1, <2>2, <2>3 DEF SessionInv, TypeOK, ConnectPrinter, clientVars,
           vendorVars, tableVars, procVars, jobVars
<1>2. pc' = "send" => line' < Lines
    BY DEF SessionInv, TypeOK, ConnectPrinter, AlreadyConnected, AfterConnection, Goto,
       Return, clientVars, vendorVars, tableVars, procVars, jobVars
<1>3. ViewIsTrue'
    BY DEF SessionInv, TypeOK, ViewIsTrue, ProcessInv, JobPlaces, None, ConnectPrinter,
       AlreadyConnected, AfterConnection, Goto, Return, clientVars, vendorVars, tableVars,
       procVars, jobVars
<1>4. RemembersItsSession'
    BY DEF SessionInv, TypeOK, ViewIsTrue, RemembersItsSession, ProcessInv, JobPlaces,
       None, ConnectPrinter, AlreadyConnected, AfterConnection, Goto, Return, clientVars,
       vendorVars, tableVars, procVars, jobVars
<1>5. ProcessInv'
    BY DEF SessionInv, ProcessInv, JobPlaces, None, ConnectPrinter, AlreadyConnected,
       AfterConnection, Goto, Return, clientVars, vendorVars, tableVars, procVars, jobVars
<1>6. DataInv'
    BY DEF SessionInv, ProcessInv, DataInv, JobPlaces, ConnectPrinter, AlreadyConnected,
       AfterConnection, Goto, Return, clientVars, vendorVars, tableVars, procVars, jobVars
<1>7. OffsetInv'
    BY DEF SessionInv, ProcessInv, OffsetInv, JobPlaces, ConnectPrinter, AlreadyConnected,
       AfterConnection, Goto, Return, clientVars, vendorVars, tableVars, procVars, jobVars
<1>8. QED
    BY <1>1, <1>2, <1>3, <1>4, <1>5, <1>6, <1>7 DEF SessionInv

\* SetJobHeight keeps the inductive invariant.
LEMMA SetJobHeightKeeps ==
    ASSUME SessionInv, SetJobHeight
    PROVE  SessionInv'
<1>1. TypeOK'
    BY Ranges DEF SessionInv, TypeOK, SetJobHeight, Goto, clientVars, vendorVars,
       tableVars, procVars, jobVars, Ask, Heights, None
<1>2. pc' = "send" => line' < Lines
    BY DEF SessionInv, TypeOK, SetJobHeight, Goto, clientVars, vendorVars, tableVars,
       procVars, jobVars
<1>3. ViewIsTrue'
    BY DEF SessionInv, TypeOK, ViewIsTrue, ProcessInv, JobPlaces, None, SetJobHeight,
       Goto, clientVars, vendorVars, tableVars, procVars, jobVars
<1>4. RemembersItsSession'
    BY DEF SessionInv, TypeOK, ViewIsTrue, RemembersItsSession, ProcessInv, JobPlaces,
       None, SetJobHeight, Goto, clientVars, vendorVars, tableVars, procVars, jobVars
<1>5. ProcessInv'
    BY DEF SessionInv, ProcessInv, JobPlaces, None, SetJobHeight, Goto, clientVars,
       vendorVars, tableVars, procVars, jobVars
<1>6. DataInv'
    BY DEF SessionInv, ProcessInv, DataInv, JobPlaces, SetJobHeight, Goto, clientVars,
       vendorVars, tableVars, procVars, jobVars
<1>7. OffsetInv'
    BY DEF SessionInv, ProcessInv, OffsetInv, JobPlaces, SetJobHeight, Goto, clientVars,
       vendorVars, tableVars, procVars, jobVars
<1>8. QED
    BY <1>1, <1>2, <1>3, <1>4, <1>5, <1>6, <1>7 DEF SessionInv

\* AwaitHeight keeps the inductive invariant.
LEMMA AwaitHeightKeeps ==
    ASSUME SessionInv, AwaitHeight
    PROVE  SessionInv'
<1>1. TypeOK'
    BY Ranges DEF SessionInv, TypeOK, AwaitHeight, GivesUpWaiting, Goto, clientVars,
       vendorVars, tableVars, procVars, jobVars
<1>2. pc' = "send" => line' < Lines
    BY DEF SessionInv, TypeOK, AwaitHeight, GivesUpWaiting, Goto, clientVars, vendorVars,
       tableVars, procVars, jobVars
<1>3. ViewIsTrue'
    BY DEF SessionInv, TypeOK, ViewIsTrue, ProcessInv, JobPlaces, None, AwaitHeight,
       GivesUpWaiting, Goto, clientVars, vendorVars, tableVars, procVars, jobVars
<1>4. RemembersItsSession'
    BY DEF SessionInv, TypeOK, ViewIsTrue, RemembersItsSession, ProcessInv, JobPlaces,
       None, AwaitHeight, GivesUpWaiting, Goto, clientVars, vendorVars, tableVars,
       procVars, jobVars
<1>5. ProcessInv'
    BY DEF SessionInv, ProcessInv, JobPlaces, None, AwaitHeight, GivesUpWaiting, Goto,
       clientVars, vendorVars, tableVars, procVars, jobVars
<1>6. DataInv'
    BY DEF SessionInv, ProcessInv, DataInv, JobPlaces, AwaitHeight, GivesUpWaiting, Goto,
       clientVars, vendorVars, tableVars, procVars, jobVars
<1>7. OffsetInv'
    BY DEF SessionInv, ProcessInv, OffsetInv, JobPlaces, AwaitHeight, GivesUpWaiting,
       Goto, clientVars, vendorVars, tableVars, procVars, jobVars
<1>8. QED
    BY <1>1, <1>2, <1>3, <1>4, <1>5, <1>6, <1>7 DEF SessionInv

\* ApplySettings keeps the inductive invariant.
LEMMA ApplySettingsKeeps ==
    ASSUME SessionInv, ApplySettings
    PROVE  SessionInv'
<1>1. TypeOK'
    BY Ranges DEF SessionInv, TypeOK, ApplySettings, BeforeInit, OriginFirst, Goto,
       clientVars, vendorVars, tableVars, procVars, jobVars
<1>2. pc' = "send" => line' < Lines
    BY DEF SessionInv, TypeOK, ApplySettings, BeforeInit, OriginFirst, Goto, clientVars,
       vendorVars, tableVars, procVars, jobVars
<1>3. ViewIsTrue'
    BY DEF SessionInv, TypeOK, ViewIsTrue, ProcessInv, JobPlaces, None, ApplySettings,
       BeforeInit, OriginFirst, Goto, clientVars, vendorVars, tableVars, procVars, jobVars
<1>4. RemembersItsSession'
    BY DEF SessionInv, TypeOK, ViewIsTrue, RemembersItsSession, ProcessInv, JobPlaces,
       None, ApplySettings, BeforeInit, OriginFirst, Goto, clientVars, vendorVars,
       tableVars, procVars, jobVars
<1>5. ProcessInv'
    BY DEF SessionInv, ProcessInv, JobPlaces, None, ApplySettings, BeforeInit,
       OriginFirst, Goto, clientVars, vendorVars, tableVars, procVars, jobVars
<1>6. DataInv'
    BY DEF SessionInv, ProcessInv, DataInv, JobPlaces, ApplySettings, BeforeInit,
       OriginFirst, Goto, clientVars, vendorVars, tableVars, procVars, jobVars
<1>7. OffsetInv'
    BY DEF SessionInv, ProcessInv, OffsetInv, JobPlaces, ApplySettings, BeforeInit,
       OriginFirst, Goto, clientVars, vendorVars, tableVars, procVars, jobVars
<1>8. QED
    BY <1>1, <1>2, <1>3, <1>4, <1>5, <1>6, <1>7 DEF SessionInv

\* PrepareOrigin keeps the inductive invariant.
LEMMA PrepareOriginKeeps ==
    ASSUME SessionInv, PrepareOrigin
    PROVE  SessionInv'
<1>1. TypeOK'
    BY Ranges DEF SessionInv, TypeOK, PrepareOrigin, MayWrite, OriginConfirmed,
       OriginFirst, Goto, clientVars, vendorVars, tableVars, procVars, jobVars, Ask
<1>2. pc' = "send" => line' < Lines
    BY DEF SessionInv, TypeOK, PrepareOrigin, MayWrite, OriginConfirmed, OriginFirst,
       Goto, clientVars, vendorVars, tableVars, procVars, jobVars
<1>3. ViewIsTrue'
    BY DEF SessionInv, TypeOK, ViewIsTrue, ProcessInv, JobPlaces, None, PrepareOrigin,
       MayWrite, OriginConfirmed, OriginFirst, Goto, clientVars, vendorVars, tableVars,
       procVars, jobVars
<1>4. RemembersItsSession'
    BY DEF SessionInv, TypeOK, ViewIsTrue, RemembersItsSession, ProcessInv, JobPlaces,
       None, PrepareOrigin, MayWrite, OriginConfirmed, OriginFirst, Goto, clientVars,
       vendorVars, tableVars, procVars, jobVars
<1>5. ProcessInv'
    BY DEF SessionInv, ProcessInv, JobPlaces, None, PrepareOrigin, MayWrite,
       OriginConfirmed, OriginFirst, Goto, clientVars, vendorVars, tableVars, procVars,
       jobVars
<1>6. DataInv'
    BY DEF SessionInv, ProcessInv, DataInv, JobPlaces, PrepareOrigin, MayWrite,
       OriginConfirmed, OriginFirst, Goto, clientVars, vendorVars, tableVars, procVars,
       jobVars
<1>7. OffsetInv'
    BY DEF SessionInv, ProcessInv, OffsetInv, JobPlaces, PrepareOrigin, MayWrite,
       OriginConfirmed, OriginFirst, Goto, clientVars, vendorVars, tableVars, procVars,
       jobVars, TypeOK
<1>8. QED
    BY <1>1, <1>2, <1>3, <1>4, <1>5, <1>6, <1>7 DEF SessionInv

\* InitPrinter keeps the inductive invariant.
LEMMA InitPrinterKeeps ==
    ASSUME SessionInv, InitPrinter
    PROVE  SessionInv'
<1>1. TypeOK'
    BY Ranges DEF SessionInv, TypeOK, InitPrinter, AfterInit, OriginFirst, Goto,
       clientVars, vendorVars, tableVars, procVars, jobVars
<1>2. pc' = "send" => line' < Lines
    BY DEF SessionInv, TypeOK, InitPrinter, AfterInit, OriginFirst, Goto, clientVars,
       vendorVars, tableVars, procVars, jobVars
<1>3. ViewIsTrue'
    BY DEF SessionInv, TypeOK, ViewIsTrue, ProcessInv, JobPlaces, None, InitPrinter,
       AfterInit, OriginFirst, Goto, clientVars, vendorVars, tableVars, procVars, jobVars
<1>4. RemembersItsSession'
    BY DEF SessionInv, TypeOK, ViewIsTrue, RemembersItsSession, ProcessInv, JobPlaces,
       None, InitPrinter, AfterInit, OriginFirst, Goto, clientVars, vendorVars, tableVars,
       procVars, jobVars
<1>5. ProcessInv'
    BY DEF SessionInv, ProcessInv, JobPlaces, None, InitPrinter, AfterInit, OriginFirst,
       Goto, clientVars, vendorVars, tableVars, procVars, jobVars
<1>6. DataInv'
    BY DEF SessionInv, ProcessInv, DataInv, JobPlaces, InitPrinter, AfterInit,
       OriginFirst, Goto, clientVars, vendorVars, tableVars, procVars, jobVars
<1>7. OffsetInv'
    BY DEF SessionInv, ProcessInv, OffsetInv, JobPlaces, InitPrinter, AfterInit,
       OriginFirst, Goto, clientVars, vendorVars, tableVars, procVars, jobVars
<1>8. QED
    BY <1>1, <1>2, <1>3, <1>4, <1>5, <1>6, <1>7 DEF SessionInv

\* StartPrint keeps the inductive invariant.
LEMMA StartPrintKeeps ==
    ASSUME SessionInv, StartPrint
    PROVE  SessionInv'
<1>1. TypeOK'
    <2>1. connected' \in BOOLEAN
        BY DEF SessionInv, TypeOK, StartPrint
    <2>2. /\ pc' \in {"check", "cleanup"} /\ result' = result
         /\ line' \in 0 .. Lines /\ data' \in {"none", "started"}
        BY Ranges DEF SessionInv, TypeOK, StartPrint, Goto
    <2>3. QED
        BY <2>1, <2>2 DEF SessionInv, TypeOK, StartPrint, clientVars, vendorVars,
           tableVars, procVars, jobVars
<1>2. pc' = "send" => line' < Lines
    BY DEF SessionInv, TypeOK, StartPrint, KeepsConnection, Goto, clientVars, vendorVars,
       tableVars, procVars, jobVars
<1>3. ViewIsTrue'
    BY DEF SessionInv, TypeOK, ViewIsTrue, ProcessInv, JobPlaces, None, StartPrint,
       KeepsConnection, Goto, clientVars, vendorVars, tableVars, procVars, jobVars
<1>4. RemembersItsSession'
    BY DEF SessionInv, TypeOK, ViewIsTrue, RemembersItsSession, ProcessInv, JobPlaces,
       None, StartPrint, KeepsConnection, Goto, clientVars, vendorVars, tableVars,
       procVars, jobVars
<1>5. ProcessInv'
    BY DEF SessionInv, ProcessInv, JobPlaces, None, StartPrint, KeepsConnection, Goto,
       clientVars, vendorVars, tableVars, procVars, jobVars
<1>6. DataInv'
    BY DEF SessionInv, ProcessInv, DataInv, JobPlaces, StartPrint, KeepsConnection, Goto,
       clientVars, vendorVars, tableVars, procVars, jobVars
<1>7. OffsetInv'
    BY DEF SessionInv, ProcessInv, OffsetInv, JobPlaces, StartPrint, KeepsConnection,
       Goto, clientVars, vendorVars, tableVars, procVars, jobVars
<1>8. QED
    BY <1>1, <1>2, <1>3, <1>4, <1>5, <1>6, <1>7 DEF SessionInv

\* CheckLine keeps the inductive invariant.
LEMMA CheckLineKeeps ==
    ASSUME SessionInv, CheckLine
    PROVE  SessionInv'
<1>1. TypeOK'
    BY Ranges DEF SessionInv, TypeOK, CheckLine, MoreLines, Goto, clientVars, vendorVars,
       tableVars, procVars, jobVars
<1>2. pc' = "send" => line' < Lines
    BY DEF SessionInv, TypeOK, CheckLine, MoreLines, Goto, clientVars, vendorVars,
       tableVars, procVars, jobVars
<1>3. ViewIsTrue'
    BY DEF SessionInv, TypeOK, ViewIsTrue, ProcessInv, JobPlaces, None, CheckLine,
       MoreLines, Goto, clientVars, vendorVars, tableVars, procVars, jobVars
<1>4. RemembersItsSession'
    BY DEF SessionInv, TypeOK, ViewIsTrue, RemembersItsSession, ProcessInv, JobPlaces,
       None, CheckLine, MoreLines, Goto, clientVars, vendorVars, tableVars, procVars,
       jobVars
<1>5. ProcessInv'
    BY DEF SessionInv, ProcessInv, JobPlaces, None, CheckLine, MoreLines, Goto,
       clientVars, vendorVars, tableVars, procVars, jobVars
<1>6. DataInv'
    BY DEF SessionInv, ProcessInv, DataInv, JobPlaces, CheckLine, MoreLines, Goto,
       clientVars, vendorVars, tableVars, procVars, jobVars
<1>7. OffsetInv'
    BY DEF SessionInv, ProcessInv, OffsetInv, JobPlaces, CheckLine, MoreLines, Goto,
       clientVars, vendorVars, tableVars, procVars, jobVars
<1>8. QED
    BY <1>1, <1>2, <1>3, <1>4, <1>5, <1>6, <1>7 DEF SessionInv

\* SendLine keeps the inductive invariant.
LEMMA SendLineKeeps ==
    ASSUME SessionInv, SendLine
    PROVE  SessionInv'
<1>1. TypeOK'
    BY SessionAssumption DEF SessionInv, TypeOK, SendLine, Goto, clientVars, vendorVars,
       tableVars, procVars, jobVars
<1>2. pc' = "send" => line' < Lines
    BY DEF SessionInv, TypeOK, SendLine, Goto, clientVars, vendorVars, tableVars,
       procVars, jobVars
<1>3. ViewIsTrue'
    BY DEF SessionInv, TypeOK, ViewIsTrue, ProcessInv, JobPlaces, None, SendLine, Goto,
       clientVars, vendorVars, tableVars, procVars, jobVars
<1>4. RemembersItsSession'
    BY DEF SessionInv, TypeOK, ViewIsTrue, RemembersItsSession, ProcessInv, JobPlaces,
       None, SendLine, Goto, clientVars, vendorVars, tableVars, procVars, jobVars
<1>5. ProcessInv'
    BY DEF SessionInv, ProcessInv, JobPlaces, None, SendLine, Goto, clientVars,
       vendorVars, tableVars, procVars, jobVars
<1>6. DataInv'
    BY DEF SessionInv, ProcessInv, DataInv, JobPlaces, SendLine, Goto, clientVars,
       vendorVars, tableVars, procVars, jobVars
<1>7. OffsetInv'
    BY DEF SessionInv, ProcessInv, OffsetInv, JobPlaces, SendLine, Goto, clientVars,
       vendorVars, tableVars, procVars, jobVars
<1>8. QED
    BY <1>1, <1>2, <1>3, <1>4, <1>5, <1>6, <1>7 DEF SessionInv

\* EndPrint keeps the inductive invariant.
LEMMA EndPrintKeeps ==
    ASSUME SessionInv, EndPrint
    PROVE  SessionInv'
<1>1. TypeOK'
    BY Ranges DEF SessionInv, TypeOK, EndPrint, Goto, clientVars, vendorVars, tableVars,
       procVars, jobVars
<1>2. pc' = "send" => line' < Lines
    BY DEF SessionInv, TypeOK, EndPrint, Goto, clientVars, vendorVars, tableVars,
       procVars, jobVars
<1>3. ViewIsTrue'
    BY DEF SessionInv, TypeOK, ViewIsTrue, ProcessInv, JobPlaces, None, EndPrint, Goto,
       clientVars, vendorVars, tableVars, procVars, jobVars
<1>4. RemembersItsSession'
    BY DEF SessionInv, TypeOK, ViewIsTrue, RemembersItsSession, ProcessInv, JobPlaces,
       None, EndPrint, Goto, clientVars, vendorVars, tableVars, procVars, jobVars
<1>5. ProcessInv'
    BY DEF SessionInv, ProcessInv, JobPlaces, None, EndPrint, Goto, clientVars,
       vendorVars, tableVars, procVars, jobVars
<1>6. DataInv'
    BY DEF SessionInv, ProcessInv, DataInv, JobPlaces, EndPrint, Goto, clientVars,
       vendorVars, tableVars, procVars, jobVars
<1>7. OffsetInv'
    BY DEF SessionInv, ProcessInv, OffsetInv, JobPlaces, EndPrint, Goto, clientVars,
       vendorVars, tableVars, procVars, jobVars
<1>8. QED
    BY <1>1, <1>2, <1>3, <1>4, <1>5, <1>6, <1>7 DEF SessionInv

\* AbortActivePrint keeps the inductive invariant.
LEMMA AbortActivePrintKeeps ==
    ASSUME SessionInv, AbortActivePrint
    PROVE  SessionInv'
<1>1. TypeOK'
    BY Ranges DEF SessionInv, TypeOK, AbortActivePrint, Goto, clientVars, vendorVars,
       tableVars, procVars, jobVars
<1>2. pc' = "send" => line' < Lines
    BY DEF SessionInv, TypeOK, AbortActivePrint, Goto, clientVars, vendorVars, tableVars,
       procVars, jobVars
<1>3. ViewIsTrue'
    BY DEF SessionInv, TypeOK, ViewIsTrue, ProcessInv, JobPlaces, None, AbortActivePrint,
       Goto, clientVars, vendorVars, tableVars, procVars, jobVars
<1>4. RemembersItsSession'
    BY DEF SessionInv, TypeOK, ViewIsTrue, RemembersItsSession, ProcessInv, JobPlaces,
       None, AbortActivePrint, Goto, clientVars, vendorVars, tableVars, procVars, jobVars
<1>5. ProcessInv'
    BY DEF SessionInv, ProcessInv, JobPlaces, None, AbortActivePrint, Goto, clientVars,
       vendorVars, tableVars, procVars, jobVars
<1>6. DataInv'
    BY DEF SessionInv, ProcessInv, DataInv, JobPlaces, AbortActivePrint, Goto, clientVars,
       vendorVars, tableVars, procVars, jobVars
<1>7. OffsetInv'
    BY DEF SessionInv, ProcessInv, OffsetInv, JobPlaces, AbortActivePrint, Goto,
       clientVars, vendorVars, tableVars, procVars, jobVars
<1>8. QED
    BY <1>1, <1>2, <1>3, <1>4, <1>5, <1>6, <1>7 DEF SessionInv

\* ClosePrint keeps the inductive invariant.
LEMMA ClosePrintKeeps ==
    ASSUME SessionInv, ClosePrint
    PROVE  SessionInv'
<1>1. TypeOK'
    BY Ranges DEF SessionInv, TypeOK, ClosePrint, Goto, clientVars, vendorVars, tableVars,
       procVars, jobVars
<1>2. pc' = "send" => line' < Lines
    BY DEF SessionInv, TypeOK, ClosePrint, Goto, clientVars, vendorVars, tableVars,
       procVars, jobVars
<1>3. ViewIsTrue'
    BY DEF SessionInv, TypeOK, ViewIsTrue, ProcessInv, JobPlaces, None, ClosePrint, Goto,
       clientVars, vendorVars, tableVars, procVars, jobVars
<1>4. RemembersItsSession'
    BY DEF SessionInv, TypeOK, ViewIsTrue, RemembersItsSession, ProcessInv, JobPlaces,
       None, ClosePrint, Goto, clientVars, vendorVars, tableVars, procVars, jobVars
<1>5. ProcessInv'
    BY DEF SessionInv, ProcessInv, JobPlaces, None, ClosePrint, Goto, clientVars,
       vendorVars, tableVars, procVars, jobVars
<1>6. DataInv'
    BY DEF SessionInv, ProcessInv, DataInv, JobPlaces, ClosePrint, Goto, clientVars,
       vendorVars, tableVars, procVars, jobVars
<1>7. OffsetInv'
    BY DEF SessionInv, ProcessInv, OffsetInv, JobPlaces, ClosePrint, Goto, clientVars,
       vendorVars, tableVars, procVars, jobVars
<1>8. QED
    BY <1>1, <1>2, <1>3, <1>4, <1>5, <1>6, <1>7 DEF SessionInv

\* ResetJobOrigin keeps the inductive invariant.
LEMMA ResetJobOriginKeeps ==
    ASSUME SessionInv, ResetJobOrigin
    PROVE  SessionInv'
<1>1. TypeOK'
    <2>1. origin' \in Offsets
        BY Ranges DEF SessionInv, TypeOK, ResetJobOrigin, MayWrite
    <2>2. pc' \in {"idle", "exit"} /\ result' \in BOOLEAN /\ armed' \in BOOLEAN
        BY DEF ResetJobOrigin, Return
    <2>3. QED
        BY <2>1, <2>2 DEF SessionInv, TypeOK, ResetJobOrigin, clientVars, vendorVars,
           tableVars, procVars, jobVars
<1>2. pc' = "send" => line' < Lines
    BY DEF SessionInv, TypeOK, ResetJobOrigin, MayWrite, OriginRestored, Return,
       clientVars, vendorVars, tableVars, procVars, jobVars
<1>3. ViewIsTrue'
    BY DEF SessionInv, TypeOK, ViewIsTrue, ProcessInv, JobPlaces, None, ResetJobOrigin,
       MayWrite, OriginRestored, Return, clientVars, vendorVars, tableVars, procVars,
       jobVars
<1>4. RemembersItsSession'
    BY DEF SessionInv, TypeOK, ViewIsTrue, RemembersItsSession, ProcessInv, JobPlaces,
       None, ResetJobOrigin, MayWrite, OriginRestored, Return, clientVars, vendorVars,
       tableVars, procVars, jobVars
<1>5. ProcessInv'
    BY DEF SessionInv, ProcessInv, JobPlaces, None, ResetJobOrigin, MayWrite,
       OriginRestored, Return, clientVars, vendorVars, tableVars, procVars, jobVars
<1>6. DataInv'
    BY DEF SessionInv, ProcessInv, DataInv, JobPlaces, ResetJobOrigin, MayWrite,
       OriginRestored, Return, clientVars, vendorVars, tableVars, procVars, jobVars
<1>7. OffsetInv'
    BY DEF SessionInv, ProcessInv, OffsetInv, JobPlaces, ResetJobOrigin, MayWrite,
       OriginRestored, Return, clientVars, vendorVars, tableVars, procVars, jobVars
<1>8. QED
    BY <1>1, <1>2, <1>3, <1>4, <1>5, <1>6, <1>7 DEF SessionInv

\* CleanUp keeps the inductive invariant.
LEMMA CleanUpKeeps ==
    ASSUME SessionInv, CleanUp
    PROVE  SessionInv'
<1>1. TypeOK'
    <2>1. origin' \in Offsets /\ armed' \in BOOLEAN
        BY Ranges DEF SessionInv, TypeOK, CleanUp, MayWrite
    <2>2. pc' \in {"idle", "exit"} /\ result' \in BOOLEAN
        BY DEF CleanUp, Return
    <2>3. UNCHANGED <<clientVars, vendorVars, tableVars, req, line, cancel, procVars>>
        BY DEF CleanUp
    <2>4. QED
        BY <2>1, <2>2, <2>3 DEF SessionInv, TypeOK, clientVars, vendorVars, tableVars,
           procVars
<1>2. pc' = "send" => line' < Lines
    BY DEF SessionInv, TypeOK, CleanUp, MayWrite, Return, clientVars, vendorVars,
       tableVars, procVars, jobVars
<1>3. ViewIsTrue'
    BY DEF SessionInv, TypeOK, ViewIsTrue, ProcessInv, JobPlaces, None, CleanUp, MayWrite,
       Return, clientVars, vendorVars, tableVars, procVars, jobVars
<1>4. RemembersItsSession'
    BY DEF SessionInv, TypeOK, ViewIsTrue, RemembersItsSession, ProcessInv, JobPlaces,
       None, CleanUp, MayWrite, Return, clientVars, vendorVars, tableVars, procVars,
       jobVars
<1>5. ProcessInv'
    BY DEF SessionInv, ProcessInv, JobPlaces, None, CleanUp, MayWrite, Return, clientVars,
       vendorVars, tableVars, procVars, jobVars
<1>6. DataInv'
    BY DEF SessionInv, ProcessInv, DataInv, JobPlaces, CleanUp, MayWrite, Return,
       clientVars, vendorVars, tableVars, procVars, jobVars
<1>7. OffsetInv'
    BY DEF SessionInv, ProcessInv, OffsetInv, JobPlaces, CleanUp, MayWrite, Return,
       clientVars, vendorVars, tableVars, procVars, jobVars
<1>8. QED
    BY <1>1, <1>2, <1>3, <1>4, <1>5, <1>6, <1>7 DEF SessionInv

\* WorkerExits keeps the inductive invariant.
LEMMA WorkerExitsKeeps ==
    ASSUME SessionInv, WorkerExits
    PROVE  SessionInv'
<1>1. TypeOK'
    BY Ranges DEF SessionInv, TypeOK, WorkerExits, Forgotten, Goto, clientVars,
       vendorVars, tableVars, procVars, jobVars
<1>2. pc' = "send" => line' < Lines
    BY DEF SessionInv, TypeOK, WorkerExits, Forgotten, Goto, clientVars, vendorVars,
       tableVars, procVars, jobVars
<1>3. ViewIsTrue'
    BY DEF SessionInv, TypeOK, ViewIsTrue, ProcessInv, JobPlaces, None, WorkerExits,
       Forgotten, Goto, clientVars, vendorVars, tableVars, procVars, jobVars
<1>4. RemembersItsSession'
    BY DEF SessionInv, TypeOK, ViewIsTrue, RemembersItsSession, ProcessInv, JobPlaces,
       None, WorkerExits, Forgotten, Goto, clientVars, vendorVars, tableVars, procVars,
       jobVars
<1>5. ProcessInv'
    BY DEF SessionInv, ProcessInv, JobPlaces, None, WorkerExits, Forgotten, Goto,
       clientVars, vendorVars, tableVars, procVars, jobVars
<1>6. DataInv'
    BY DEF SessionInv, ProcessInv, DataInv, JobPlaces, WorkerExits, Forgotten, Goto,
       clientVars, vendorVars, tableVars, procVars, jobVars
<1>7. OffsetInv'
    BY DEF SessionInv, ProcessInv, OffsetInv, JobPlaces, WorkerExits, Forgotten, Goto,
       clientVars, vendorVars, tableVars, procVars, jobVars
<1>8. QED
    BY <1>1, <1>2, <1>3, <1>4, <1>5, <1>6, <1>7 DEF SessionInv

\* TableMoves keeps the inductive invariant.
LEMMA TableMovesKeeps ==
    ASSUME SessionInv, TableMoves
    PROVE  SessionInv'
<1>1. TypeOK'
    BY SessionAssumption DEF SessionInv, TypeOK, TableMoves, clientVars, vendorVars,
       tableVars, procVars, jobVars, Heights
<1>2. pc' = "send" => line' < Lines
    BY DEF SessionInv, TypeOK, TableMoves, clientVars, vendorVars, tableVars, procVars,
       jobVars
<1>3. ViewIsTrue'
    BY DEF SessionInv, TypeOK, ViewIsTrue, ProcessInv, JobPlaces, None, TableMoves,
       clientVars, vendorVars, tableVars, procVars, jobVars
<1>4. RemembersItsSession'
    BY DEF SessionInv, TypeOK, ViewIsTrue, RemembersItsSession, ProcessInv, JobPlaces,
       None, TableMoves, clientVars, vendorVars, tableVars, procVars, jobVars
<1>5. ProcessInv'
    BY DEF SessionInv, ProcessInv, JobPlaces, None, TableMoves, clientVars, vendorVars,
       tableVars, procVars, jobVars
<1>6. DataInv'
    BY DEF SessionInv, ProcessInv, DataInv, JobPlaces, TableMoves, clientVars, vendorVars,
       tableVars, procVars, jobVars
<1>7. OffsetInv'
    BY DEF SessionInv, ProcessInv, OffsetInv, JobPlaces, TableMoves, clientVars,
       vendorVars, tableVars, procVars, jobVars
<1>8. QED
    BY <1>1, <1>2, <1>3, <1>4, <1>5, <1>6, <1>7 DEF SessionInv

\* Crash keeps the inductive invariant.
LEMMA CrashKeeps ==
    ASSUME SessionInv, Crash
    PROVE  SessionInv'
<1>1. TypeOK'
    <2>1. crashes' \in 0 .. MaxCrashes
        BY SessionAssumption DEF SessionInv, TypeOK, Crash
    <2>2. /\ found' \in 0 .. MaxPrinters /\ selected' \in Printers \cup {None}
         /\ chosen' \in Printers \cup {None} /\ control' \in Printers \cup {None}
        BY Ranges DEF Crash, Forgotten
    <2>3. QED
        BY <2>1, <2>2 DEF SessionInv, TypeOK, Crash, Forgotten, clientVars, vendorVars,
           tableVars, procVars, jobVars
<1>2. pc' = "send" => line' < Lines
    BY DEF SessionInv, TypeOK, Crash, Forgotten, clientVars, vendorVars, tableVars,
       procVars, jobVars
<1>3. ViewIsTrue'
    BY DEF SessionInv, TypeOK, ViewIsTrue, ProcessInv, JobPlaces, None, Crash, Forgotten,
       clientVars, vendorVars, tableVars, procVars, jobVars
<1>4. RemembersItsSession'
    BY DEF SessionInv, TypeOK, ViewIsTrue, RemembersItsSession, ProcessInv, JobPlaces,
       None, Crash, Forgotten, clientVars, vendorVars, tableVars, procVars, jobVars
<1>5. ProcessInv'
    BY DEF SessionInv, ProcessInv, JobPlaces, None, Crash, Forgotten, clientVars,
       vendorVars, tableVars, procVars, jobVars
<1>6. DataInv'
    BY DEF SessionInv, ProcessInv, DataInv, JobPlaces, Crash, Forgotten, clientVars,
       vendorVars, tableVars, procVars, jobVars
<1>7. OffsetInv'
    BY DEF SessionInv, ProcessInv, OffsetInv, JobPlaces, Crash, Forgotten, clientVars,
       vendorVars, tableVars, procVars, jobVars
<1>8. QED
    BY <1>1, <1>2, <1>3, <1>4, <1>5, <1>6, <1>7 DEF SessionInv

\* SetUp keeps the inductive invariant.
LEMMA SetUpKeeps ==
    ASSUME SessionInv, NEW kind \in {"refresh", "choose", "connect", "setup"},
           NEW p \in Printers \cup {None}, SetUp(kind, p)
    PROVE  SessionInv'
<1>1. TypeOK'
    <2>1. Plain(kind, p) \in Ask
        BY Ranges DEF Plain, Ask, Kinds
    <2>2. req' \in Ask /\ pc' \in {"search", "choose"} /\ result' \in BOOLEAN
        BY <2>1 DEF SetUp
    <2>3. UNCHANGED <<clientVars, vendorVars, origin, tableVars, jobVars, procVars>>
        BY DEF SetUp
    <2>4. QED
        BY <2>2, <2>3 DEF SessionInv, TypeOK, clientVars, vendorVars, tableVars, procVars,
           jobVars
<1>2. pc' = "send" => line' < Lines
    BY DEF SessionInv, TypeOK, SetUp, Plain, clientVars, vendorVars, tableVars, procVars,
       jobVars
<1>3. ViewIsTrue'
    BY DEF SessionInv, TypeOK, ViewIsTrue, ProcessInv, JobPlaces, None, SetUp, Plain,
       clientVars, vendorVars, tableVars, procVars, jobVars
<1>4. RemembersItsSession'
    BY DEF SessionInv, TypeOK, ViewIsTrue, RemembersItsSession, ProcessInv, JobPlaces,
       None, SetUp, Plain, clientVars, vendorVars, tableVars, procVars, jobVars
<1>5. ProcessInv'
    BY DEF SessionInv, ProcessInv, JobPlaces, None, SetUp, Plain, clientVars, vendorVars,
       tableVars, procVars, jobVars
<1>6. DataInv'
    BY DEF SessionInv, ProcessInv, DataInv, JobPlaces, SetUp, Plain, clientVars,
       vendorVars, tableVars, procVars, jobVars
<1>7. OffsetInv'
    BY DEF SessionInv, ProcessInv, OffsetInv, JobPlaces, SetUp, Plain, clientVars,
       vendorVars, tableVars, procVars, jobVars
<1>8. QED
    BY <1>1, <1>2, <1>3, <1>4, <1>5, <1>6, <1>7 DEF SessionInv

\* Reconnect keeps the inductive invariant.
LEMMA ReconnectKeeps ==
    ASSUME SessionInv, NEW p \in Printers \cup {None}, Reconnect(p)
    PROVE  SessionInv'
<1>1. TypeOK'
    BY Ranges DEF SessionInv, TypeOK, Reconnect, Plain, UnloadSdkSession, Forgotten,
       clientVars, vendorVars, tableVars, procVars, jobVars, Ask, Kinds
<1>2. pc' = "send" => line' < Lines
    BY DEF SessionInv, TypeOK, Reconnect, Plain, UnloadSdkSession, Forgotten, clientVars,
       vendorVars, tableVars, procVars, jobVars
<1>3. ViewIsTrue'
    BY DEF SessionInv, TypeOK, ViewIsTrue, ProcessInv, JobPlaces, None, Reconnect, Plain,
       UnloadSdkSession, Forgotten, clientVars, vendorVars, tableVars, procVars, jobVars
<1>4. RemembersItsSession'
    BY DEF SessionInv, TypeOK, ViewIsTrue, RemembersItsSession, ProcessInv, JobPlaces,
       None, Reconnect, Plain, UnloadSdkSession, Forgotten, clientVars, vendorVars,
       tableVars, procVars, jobVars
<1>5. ProcessInv'
    BY DEF SessionInv, ProcessInv, JobPlaces, None, Reconnect, Plain, UnloadSdkSession,
       Forgotten, clientVars, vendorVars, tableVars, procVars, jobVars
<1>6. DataInv'
    BY DEF SessionInv, ProcessInv, DataInv, JobPlaces, Reconnect, Plain, UnloadSdkSession,
       Forgotten, clientVars, vendorVars, tableVars, procVars, jobVars
<1>7. OffsetInv'
    BY DEF SessionInv, ProcessInv, OffsetInv, JobPlaces, Reconnect, Plain,
       UnloadSdkSession, Forgotten, clientVars, vendorVars, tableVars, procVars, jobVars
<1>8. QED
    BY <1>1, <1>2, <1>3, <1>4, <1>5, <1>6, <1>7 DEF SessionInv

\* Submit keeps the inductive invariant.
LEMMA SubmitKeeps ==
    ASSUME SessionInv, NEW r \in Ask, r.kind = "print", Submit(r)
    PROVE  SessionInv'
<1>1. TypeOK'
    <2>1. req' \in Ask /\ cancel' \in BOOLEAN /\ result' \in BOOLEAN
        BY DEF Submit
    <2>2. /\ pc' \in {"idle", "search", "choose"}
         /\ worker' \in {"none", "starting", "printing"}
        BY DEF SessionInv, TypeOK, Submit
    <2>3. \/ UNCHANGED <<found, selected, connected, vendorVars>>
        \/ Forgotten
        BY DEF Submit, UnloadSdkSession, clientVars
    <2>4. lib' \in {"unloaded", "loaded", "wedged"}
        BY DEF SessionInv, TypeOK, Submit, EnsureLoaded, UnloadSdkSession, clientVars
    <2>5. /\ found' \in 0 .. MaxPrinters /\ selected' \in Printers \cup {None}
         /\ chosen' \in Printers \cup {None} /\ control' \in Printers \cup {None}
        BY <2>3, Ranges DEF SessionInv, TypeOK, Forgotten, vendorVars
    <2>6. /\ connected' \in BOOLEAN /\ rechosen' \in BOOLEAN
         /\ data' \in {"none", "inited", "started", "ended"}
        BY <2>3 DEF SessionInv, TypeOK, Forgotten, vendorVars
    <2>7. UNCHANGED <<origin, tableVars, armed, line, arm, crashes>>
        BY DEF Submit
    <2>8. QED
        BY <2>1, <2>2, <2>4, <2>5, <2>6, <2>7 DEF SessionInv, TypeOK, tableVars
<1>2. pc' = "send" => line' < Lines
    BY DEF SessionInv, TypeOK, Submit, EnsureLoaded, UnloadSdkSession, Forgotten,
       clientVars, vendorVars, tableVars, procVars, jobVars
<1>3. ViewIsTrue'
    BY DEF SessionInv, TypeOK, ViewIsTrue, ProcessInv, JobPlaces, None, Submit,
       EnsureLoaded, UnloadSdkSession, Forgotten, clientVars, vendorVars, tableVars,
       procVars, jobVars
<1>4. RemembersItsSession'
    BY DEF SessionInv, TypeOK, ViewIsTrue, RemembersItsSession, ProcessInv, JobPlaces,
       None, Submit, EnsureLoaded, UnloadSdkSession, Forgotten, clientVars, vendorVars,
       tableVars, procVars, jobVars
<1>5. ProcessInv'
    BY DEF SessionInv, ProcessInv, JobPlaces, None, Submit, EnsureLoaded,
       UnloadSdkSession, Forgotten, clientVars, vendorVars, tableVars, procVars, jobVars
<1>6. DataInv'
    BY DEF SessionInv, ProcessInv, DataInv, JobPlaces, Submit, EnsureLoaded,
       UnloadSdkSession, Forgotten, clientVars, vendorVars, tableVars, procVars, jobVars
<1>7. OffsetInv'
    BY DEF SessionInv, ProcessInv, OffsetInv, JobPlaces, Submit, EnsureLoaded,
       UnloadSdkSession, Forgotten, clientVars, vendorVars, tableVars, procVars, jobVars
<1>8. QED
    BY <1>1, <1>2, <1>3, <1>4, <1>5, <1>6, <1>7 DEF SessionInv

\* SetPrintXYValue keeps the inductive invariant.
LEMMA SetPrintXYValueKeeps ==
    ASSUME SessionInv, NEW value \in Offsets, SetPrintXYValue(value)
    PROVE  SessionInv'
<1>1. TypeOK'
    BY Ranges DEF SessionInv, TypeOK, SetPrintXYValue, EnsureLoaded, MayWrite, clientVars,
       vendorVars, tableVars, procVars, jobVars
<1>2. pc' = "send" => line' < Lines
    BY DEF SessionInv, TypeOK, SetPrintXYValue, EnsureLoaded, MayWrite, clientVars,
       vendorVars, tableVars, procVars, jobVars
<1>3. ViewIsTrue'
    BY DEF SessionInv, TypeOK, ViewIsTrue, ProcessInv, JobPlaces, None, SetPrintXYValue,
       EnsureLoaded, MayWrite, clientVars, vendorVars, tableVars, procVars, jobVars
<1>4. RemembersItsSession'
    BY DEF SessionInv, TypeOK, ViewIsTrue, RemembersItsSession, ProcessInv, JobPlaces,
       None, SetPrintXYValue, EnsureLoaded, MayWrite, clientVars, vendorVars, tableVars,
       procVars, jobVars
<1>5. ProcessInv'
    BY DEF SessionInv, ProcessInv, JobPlaces, None, SetPrintXYValue, EnsureLoaded,
       MayWrite, clientVars, vendorVars, tableVars, procVars, jobVars
<1>6. DataInv'
    BY DEF SessionInv, ProcessInv, DataInv, JobPlaces, SetPrintXYValue, EnsureLoaded,
       MayWrite, clientVars, vendorVars, tableVars, procVars, jobVars
<1>7. OffsetInv'
    BY DEF SessionInv, ProcessInv, OffsetInv, JobPlaces, SetPrintXYValue, EnsureLoaded,
       MayWrite, clientVars, vendorVars, tableVars, procVars, jobVars
<1>8. QED
    BY <1>1, <1>2, <1>3, <1>4, <1>5, <1>6, <1>7 DEF SessionInv

\* SetPrintHeight keeps the inductive invariant.
LEMMA SetPrintHeightKeeps ==
    ASSUME SessionInv, NEW h \in Heights, SetPrintHeight(h)
    PROVE  SessionInv'
<1>1. TypeOK'
    BY Ranges DEF SessionInv, TypeOK, SetPrintHeight, EnsureLoaded, clientVars,
       vendorVars, tableVars, procVars, jobVars
<1>2. pc' = "send" => line' < Lines
    BY DEF SessionInv, TypeOK, SetPrintHeight, EnsureLoaded, clientVars, vendorVars,
       tableVars, procVars, jobVars
<1>3. ViewIsTrue'
    BY DEF SessionInv, TypeOK, ViewIsTrue, ProcessInv, JobPlaces, None, SetPrintHeight,
       EnsureLoaded, clientVars, vendorVars, tableVars, procVars, jobVars
<1>4. RemembersItsSession'
    BY DEF SessionInv, TypeOK, ViewIsTrue, RemembersItsSession, ProcessInv, JobPlaces,
       None, SetPrintHeight, EnsureLoaded, clientVars, vendorVars, tableVars, procVars,
       jobVars
<1>5. ProcessInv'
    BY DEF SessionInv, ProcessInv, JobPlaces, None, SetPrintHeight, EnsureLoaded,
       clientVars, vendorVars, tableVars, procVars, jobVars
<1>6. DataInv'
    BY DEF SessionInv, ProcessInv, DataInv, JobPlaces, SetPrintHeight, EnsureLoaded,
       clientVars, vendorVars, tableVars, procVars, jobVars
<1>7. OffsetInv'
    BY DEF SessionInv, ProcessInv, OffsetInv, JobPlaces, SetPrintHeight, EnsureLoaded,
       clientVars, vendorVars, tableVars, procVars, jobVars
<1>8. QED
    BY <1>1, <1>2, <1>3, <1>4, <1>5, <1>6, <1>7 DEF SessionInv


\* The initial state satisfies the inductive invariant.
LEMMA InitEstablishesSession == Init => SessionInv
<1> SUFFICES ASSUME Init PROVE SessionInv
    OBVIOUS
<1>1. TypeOK
    <2>1. Plain("refresh", None) \in Ask
        BY Ranges DEF Plain, Ask, Kinds
    <2>2. crashes \in 0 .. MaxCrashes
        BY SessionAssumption DEF Init
    <2>3. QED
        BY <2>1, <2>2, Ranges DEF Init, TypeOK
<1>2. ViewIsTrue /\ RemembersItsSession /\ (pc = "send" => line < Lines)
    BY DEF Init, ViewIsTrue, RemembersItsSession
<1>3. ProcessInv
    BY DEF Init, ProcessInv, JobPlaces
<1>4. DataInv
    BY DEF Init, DataInv
<1>5. OffsetInv
    BY DEF Init, OffsetInv
<1>6. QED
    BY <1>1, <1>2, <1>3, <1>4, <1>5 DEF SessionInv

\* Every step keeps the inductive invariant.
LEMMA StepKeepsSession == SessionInv /\ [Next]_vars => SessionInv'
<1> SUFFICES ASSUME SessionInv, [Next]_vars PROVE SessionInv'
    OBVIOUS
<1>1. CASE Request
    <2>1. CASE IsAvailable
        BY <2>1, IsAvailableKeeps
    <2>2. CASE Configure
        BY <2>2, ConfigureKeeps
    <2>3. CASE PrintNozzleCheck
        BY <2>3, PrintNozzleCheckKeeps
    <2>4. CASE AbortPrint
        BY <2>4, AbortPrintKeeps
    <2>5. ASSUME NEW p \in Printers \cup {None},
                 NEW kind \in {"refresh", "choose", "connect", "setup"}, SetUp(kind, p)
          PROVE  SessionInv'
        BY <2>5, SetUpKeeps
    <2>6. ASSUME NEW p \in Printers \cup {None}, Reconnect(p) PROVE SessionInv'
        BY <2>6, ReconnectKeeps
    <2>7. ASSUME NEW r \in Ask, r.kind = "print", Submit(r) PROVE SessionInv'
        BY <2>7, SubmitKeeps
    <2>8. ASSUME NEW value \in Offsets, SetPrintXYValue(value) PROVE SessionInv'
        BY <2>8, SetPrintXYValueKeeps
    <2>9. ASSUME NEW h \in Heights, SetPrintHeight(h) PROVE SessionInv'
        BY <2>9, SetPrintHeightKeeps
    <2>10. QED
        BY <1>1, <2>1, <2>2, <2>3, <2>4, <2>5, <2>6, <2>7, <2>8, <2>9 DEF Request
<1>2. CASE OperationStep
    BY <1>2, RefreshPrintersKeeps, ChoosePrinterKeeps, ConnectPrinterKeeps,
       SetJobHeightKeeps, AwaitHeightKeeps,
       ApplySettingsKeeps, PrepareOriginKeeps, InitPrinterKeeps,
       StartPrintKeeps, CheckLineKeeps,
       SendLineKeeps, EndPrintKeeps, AbortActivePrintKeeps, ClosePrintKeeps,
       ResetJobOriginKeeps, CleanUpKeeps, WorkerExitsKeeps DEF OperationStep
<1>3. CASE TableMoves
    BY <1>3, TableMovesKeeps
<1>4. CASE Crash
    BY <1>4, CrashKeeps
<1>5. CASE UNCHANGED vars
    <2>1. TypeOK'
        BY <1>5 DEF SessionInv, TypeOK, vars, clientVars, vendorVars, tableVars, jobVars,
           procVars
    <2>2. ViewIsTrue' /\ RemembersItsSession' /\ (pc' = "send" => line' < Lines)
        BY <1>5 DEF SessionInv, ViewIsTrue, RemembersItsSession, vars, clientVars,
           vendorVars,
                    jobVars, procVars
    <2>3. ProcessInv' /\ DataInv' /\ OffsetInv'
        BY <1>5 DEF SessionInv, ProcessInv, DataInv, OffsetInv, JobPlaces, vars, clientVars,
                    vendorVars, jobVars, procVars
    <2>4. QED
        BY <2>1, <2>2, <2>3 DEF SessionInv
<1>6. QED
    BY <1>1, <1>2, <1>3, <1>4, <1>5 DEF Next

-----------------------------------------------------------------------------

\* SessionInv holds in every state of every behaviour, for any number of printers,
\* lines, offsets, heights and crashes.
THEOREM SessionInvariance == Spec => []SessionInv
<1>1. Init => SessionInv
    BY InitEstablishesSession
<1>2. SessionInv /\ [Next]_vars => SessionInv'
    BY StepKeepsSession
<1>3. QED
    BY <1>1, <1>2, PTL DEF Spec

\* Every variable keeps its type, and no job sends more lines than it has.
THEOREM SessionTypeCorrect == Spec => []TypeOK
<1>1. SessionInv => TypeOK
    BY DEF SessionInv
<1>2. QED
    BY <1>1, SessionInvariance, PTL

\* The selection and the session the client would go on with are the library's own.
THEOREM ViewStaysTrue == Spec => []ViewIsTrue
<1>1. SessionInv => ViewIsTrue
    BY DEF SessionInv
<1>2. QED
    BY <1>1, SessionInvariance, PTL

\* From StartPrint to ClosePrint the controller's origin is the job's offset.
THEOREM JobHasItsOrigin == Spec => []StartsAtItsOwnOrigin
<1>1. SessionInv => StartsAtItsOwnOrigin
    BY DEF SessionInv, OffsetInv, StartsAtItsOwnOrigin, Streaming
<1>2. QED
    BY <1>1, SessionInvariance, PTL

\* The aarch64 client forgets no open control session but by choosing another printer.
THEOREM SessionRemembered == Spec => []RemembersItsSession
<1>1. SessionInv => RemembersItsSession
    BY DEF SessionInv
<1>2. QED
    BY <1>1, SessionInvariance, PTL

\* A print reported as done has taken its offset back.
THEOREM PrintedOffsetTakenBack == Spec => PrintedLeavesNoOffset
<1>1. ASSUME SessionInv, [Next]_vars, ReportsPrint PROVE origin' = 0
    <2>1. CASE Request \/ TableMoves \/ Crash \/ UNCHANGED vars
        <3>1. result' \in {result, FALSE}
            BY <2>1 DEF Request, IsAvailable, Configure, PrintNozzleCheck, AbortPrint,
               SetUp,
                        Reconnect, Submit, SetPrintXYValue, SetPrintHeight, TableMoves,
                        Crash, vars
        <3>2. QED
            BY <1>1, <3>1 DEF ReportsPrint
    <2>2. CASE RefreshPrinters
        BY <1>1, <2>2 DEF ReportsPrint, RefreshPrinters, AfterSearch, Goto, Return
    <2>3. CASE ChoosePrinter
        BY <1>1, <2>3 DEF ReportsPrint, ChoosePrinter, AfterChoice, Goto, Return
    <2>4. CASE ConnectPrinter
        BY <1>1, <2>4 DEF ReportsPrint, ConnectPrinter, AfterConnection, Goto, Return
    <2>5. CASE ResetJobOrigin
        BY <1>1, <2>5 DEF ReportsPrint, ResetJobOrigin, OriginRestored, Return, SessionInv,
                          OffsetInv
    <2>6. CASE CleanUp
        BY <1>1, <2>6 DEF ReportsPrint, CleanUp, Return
    <2>7. CASE OperationStep /\ ~RefreshPrinters /\ ~ChoosePrinter /\ ~ConnectPrinter
               /\ ~ResetJobOrigin /\ ~CleanUp
        <3>1. result' = result
            BY <2>7 DEF OperationStep, SetJobHeight, AwaitHeight, ApplySettings,
               GivesUpWaiting,
                        PrepareOrigin, InitPrinter, StartPrint, CheckLine, SendLine,
                        EndPrint, AbortActivePrint, ClosePrint, WorkerExits, Goto
        <3>2. QED
            BY <1>1, <3>1 DEF ReportsPrint
    <2>8. QED
        BY <1>1, <2>1, <2>2, <2>3, <2>4, <2>5, <2>6, <2>7 DEF Next
<1>2. SessionInv /\ [Next]_vars => [ReportsPrint => origin' = 0]_vars
    BY <1>1
<1>3. QED
    BY <1>2, SessionInvariance, PTL DEF Spec, PrintedLeavesNoOffset

-----------------------------------------------------------------------------
(* The order of the vendor calls: each step is one the vendor library        *)
(* allows, or changes nothing it sees.                                       *)

FollowsStep == [Vendor!Next]_(Vendor!sequenceVars)
Unseen == UNCHANGED <<arm, chosen, control, data, origin>>

\* A step the vendor library does not see.
LEMMA UnseenFollows == Unseen => FollowsStep
    BY DEF Unseen, FollowsStep, Vendor!sequenceVars

\* The steps between vendor calls that matter to the sequence.
LEMMA QuietFollows ==
    ASSUME \/ IsAvailable \/ AbortPrint \/ TableMoves \/ SetJobHeight \/ AwaitHeight
           \/ ApplySettings \/ CheckLine \/ SendLine \/ UNCHANGED vars
    PROVE  FollowsStep
<1>1. Unseen
    BY DEF Unseen, IsAvailable, AbortPrint, TableMoves, SetJobHeight, AwaitHeight,
           ApplySettings, CheckLine, SendLine, vars, vendorVars, procVars
<1>2. QED
    BY <1>1, UnseenFollows

\* Whatever leaves nothing of the session is the library's Leave.
LEMMA ForgottenFollows ==
    ASSUME Forgotten, UNCHANGED <<arm, origin>>
    PROVE  FollowsStep
<1>1. Vendor!Leave
    BY DEF Forgotten, Vendor!Leave
<1>2. QED
    BY <1>1 DEF FollowsStep, Vendor!Next

\* Unloading, exiting and crashing are the library's Leave.
LEMMA LeavingFollows ==
    ASSUME \/ Configure \/ WorkerExits \/ Crash
           \/ \E p \in Printers \cup {None} : Reconnect(p)
    PROVE  FollowsStep
<1>1. Forgotten /\ UNCHANGED <<arm, origin>>
    BY DEF Configure, WorkerExits, Crash, Reconnect, UnloadSdkSession, procVars
<1>2. QED
    BY <1>1, ForgottenFollows

\* A request for a search, a selection, a connection or a job calls nothing itself; a
\* job of the x86-64 build unloads the service's library.
LEMMA AskingFollows ==
    ASSUME \/ \E p \in Printers \cup {None} :
                 \E kind \in {"refresh", "choose", "connect", "setup"} : SetUp(kind, p)
           \/ \E r \in Ask : r.kind = "print" /\ Submit(r)
           \/ \E h \in Heights : SetPrintHeight(h)
    PROVE  FollowsStep
<1>1. CASE Unseen
    BY <1>1, UnseenFollows
<1>2. CASE Forgotten /\ UNCHANGED <<arm, origin>>
    BY <1>2, ForgottenFollows
<1>3. QED
    BY <1>1, <1>2 DEF Unseen, SetUp, Submit, SetPrintHeight, UnloadSdkSession, vendorVars,
                      procVars

\* A write of the origin comes between jobs, or on x86-64 after InitPrinter.
LEMMA OriginFollows ==
    ASSUME SessionInv, TypeOK',
           \/ PrintNozzleCheck \/ PrepareOrigin \/ ResetJobOrigin \/ CleanUp
           \/ \E value \in Offsets : SetPrintXYValue(value)
    PROVE  FollowsStep
<1>1. data = "none" \/ (data = "inited" /\ ~arm)
    BY DEF SessionInv, DataInv, PrintNozzleCheck, PrepareOrigin, ResetJobOrigin, CleanUp,
           SetPrintXYValue
<1>2. UNCHANGED <<arm, chosen, control, data>>
    BY DEF PrintNozzleCheck, PrepareOrigin, ResetJobOrigin, CleanUp, SetPrintXYValue,
           vendorVars, procVars
<1>3. Vendor!SetOrigin
    BY <1>1, <1>2 DEF TypeOK, Vendor!SetOrigin
<1>4. QED
    BY <1>3 DEF FollowsStep, Vendor!Next

\* A search comes between jobs.
LEMMA SearchFollows ==
    ASSUME SessionInv, RefreshPrinters
    PROVE  FollowsStep
<1>1. data = "none" /\ UNCHANGED <<arm, control, data, origin>> /\ chosen' \in {chosen, None}
    BY DEF SessionInv, DataInv, RefreshPrinters
<1>2. CASE chosen' = chosen
    BY <1>1, <1>2, UnseenFollows DEF Unseen
<1>3. CASE chosen' = None
    BY <1>1, <1>3 DEF FollowsStep, Vendor!Next, Vendor!Search
<1>4. QED
    BY <1>1, <1>2, <1>3

\* A selection comes between jobs and names a printer of the list.
LEMMA SelectFollows ==
    ASSUME SessionInv, ChoosePrinter
    PROVE  FollowsStep
<1>1. data = "none" /\ UNCHANGED <<arm, control, data, origin>>
    BY DEF SessionInv, DataInv, ChoosePrinter, procVars
<1>2. CASE chosen' = chosen
    BY <1>1, <1>2, UnseenFollows DEF Unseen
<1>3. CASE chosen' \in Printers
    BY <1>1, <1>3 DEF FollowsStep, Vendor!Next, Vendor!Select
<1>4. chosen' = chosen \/ chosen' \in Printers
    BY WantedInRange DEF SessionInv, ChoosePrinter
<1>5. QED
    BY <1>2, <1>3, <1>4

\* A connection comes between jobs, to a selected printer.
LEMMA ConnectFollows ==
    ASSUME SessionInv, ConnectPrinter
    PROVE  FollowsStep
<1>1. /\ data = "none" /\ UNCHANGED <<arm, chosen, data, origin>>
      /\ chosen /= None
    BY DEF SessionInv, DataInv, ViewIsTrue, ProcessInv, ConnectPrinter, procVars
<1>2. CASE control' = control
    BY <1>1, <1>2, UnseenFollows DEF Unseen
<1>3. CASE control' \in {chosen, None}
    BY <1>1, <1>3 DEF FollowsStep, Vendor!Next, Vendor!Connect
<1>4. QED
    BY <1>2, <1>3 DEF ConnectPrinter

\* InitPrinter comes between jobs, on a session to the selected printer.
LEMMA InitFollows ==
    ASSUME SessionInv, InitPrinter
    PROVE  FollowsStep
<1>1. /\ data = "none" /\ UNCHANGED <<arm, chosen, control, origin>>
      /\ chosen /= None /\ control = chosen
    BY DEF SessionInv, DataInv, ViewIsTrue, ProcessInv, JobPlaces, InitPrinter, procVars
<1>2. CASE data' = data
    BY <1>1, <1>2, UnseenFollows DEF Unseen
<1>3. CASE data' = "inited"
    BY <1>1, <1>3 DEF FollowsStep, Vendor!Next, Vendor!InitPrinter
<1>4. QED
    BY <1>2, <1>3 DEF InitPrinter

\* Starting, ending and closing a job follow InitPrinter in that order.
LEMMA JobFollows ==
    ASSUME SessionInv, StartPrint \/ EndPrint \/ AbortActivePrint \/ ClosePrint
    PROVE  FollowsStep
<1>1. UNCHANGED <<arm, chosen, control, origin>>
    BY DEF StartPrint, EndPrint, AbortActivePrint, ClosePrint, procVars
<1>2. CASE StartPrint
    <2>1. Vendor!StartPrint
        BY <1>1, <1>2 DEF SessionInv, DataInv, StartPrint, Vendor!StartPrint
    <2>2. QED
        BY <2>1 DEF FollowsStep, Vendor!Next
<1>3. CASE EndPrint
    <2>1. CASE data' = data
        BY <1>1, <2>1, UnseenFollows DEF Unseen
    <2>2. CASE data' = "ended"
        <3>1. Vendor!EndPrint
            BY <1>1, <1>3, <2>2 DEF SessionInv, DataInv, EndPrint, Vendor!EndPrint
        <3>2. QED
            BY <3>1 DEF FollowsStep, Vendor!Next
    <2>3. QED
        BY <1>3, <2>1, <2>2 DEF EndPrint
<1>4. CASE AbortActivePrint \/ ClosePrint
    <2>1. Vendor!ClosePrint
        BY <1>1, <1>4 DEF SessionInv, DataInv, AbortActivePrint, ClosePrint,
           Vendor!ClosePrint
    <2>2. QED
        BY <2>1 DEF FollowsStep, Vendor!Next
<1>5. QED
    BY <1>2, <1>3, <1>4

\* Refinement: whatever is asked for, refused, aborted or killed in any order, the
\* vendor library sees only call sequences it allows.
THEOREM VendorSequenceFollowed == Spec => FollowsVendorSequence
<1>1. Init => Vendor!Init
    BY SessionAssumption DEF Init, Vendor!Init
<1>2. SessionInv /\ [Next]_vars => FollowsStep
    <2> SUFFICES ASSUME SessionInv, [Next]_vars PROVE FollowsStep
        OBVIOUS
    <2>1. TypeOK'
        BY StepKeepsSession DEF SessionInv
    <2>2. CASE Request
        BY <2>1, <2>2, QuietFollows, LeavingFollows, AskingFollows, OriginFollows DEF
           Request
    <2>3. CASE OperationStep
        BY <2>1, <2>3, QuietFollows, LeavingFollows, OriginFollows, SearchFollows,
           SelectFollows,
           ConnectFollows, InitFollows, JobFollows DEF OperationStep
    <2>4. QED
        BY <2>2, <2>3, QuietFollows, LeavingFollows DEF Next
<1>3. QED
    BY <1>1, <1>2, SessionInvariance, PTL DEF Spec, FollowsVendorSequence, Vendor!Spec,
       FollowsStep
==============================================================================
