--------------------------- MODULE DashboardProofs --------------------------
(***************************************************************************)
(* Proofs about Dashboard, for any number of tabs, jobs and cron jobs, any *)
(* page size and any page parameter an operator may type.                  *)
(***************************************************************************)
EXTENDS Dashboard, FiniteSetTheorems, TLAPS

USE IdAssumption, PageAssumption, FilterAssumption, TypedFormsAssumption

Requests == [path : Paths \cup {"none"}, post : BOOLEAN, form : Forms, params : Params,
             auth : BOOLEAN, hops : 0..MaxHops, astray : BOOLEAN, total : Nat \cup {-1}]
Asked == [form : RowForms \cup {NoForm, OtherAction}, dialog : BOOLEAN]
Views == [forms : SUBSET RowForms, num : Int, total : Nat, prev : BOOLEAN, next : BOOLEAN]
Dialogs == [kind : {"confirm"}, form : RowForms] \cup
           [kind : {"none", "success", "warning"}, form : {NoForm}]
Jars == [auth : BOOLEAN, flash : Messages \cup {"none"}, warning : {"invalid", "none"}]
-----------------------------------------------------------------------------
(* The values the model is made of.                                        *)

\* The empty values belong to their types.
LEMMA NothingTypes ==
    /\ NoParams \in Params /\ NoParams.page = NoPage /\ NoParams.status = "all"
    /\ NoReq \in Requests /\ NoView \in Views /\ NoDialog \in Dialogs /\ NoCookies \in Jars
    /\ NoReq.path = "none" /\ NoReq.form = NoForm /\ NoReq.hops = 0 /\ ~NoReq.post
    /\ NoConsent \in Asked
    /\ NoDialog.form = NoForm /\ NoDialog.kind = "none"
    /\ NoForm \in Forms /\ NoForm \notin RowForms
<1>1. NoParams \in Params /\ NoParams.page = NoPage /\ NoParams.status = "all"
  BY DEF NoParams, NoPage, Params
<1>2. NoForm \in Forms /\ NoForm \notin RowForms
  BY DEF Forms, NoForm, RowForms, Removals, Switches
<1>3. NoReq \in Requests /\ NoReq.path = "none" /\ NoReq.form = NoForm /\ NoReq.hops = 0
      /\ ~NoReq.post
  BY <1>1, <1>2 DEF NoReq, Requests
<1>4. NoView \in Views
  BY DEF NoView, Views
<1>5. NoDialog \in Dialogs /\ NoDialog.form = NoForm /\ NoDialog.kind = "none"
  BY DEF NoDialog, Dialogs
<1>6. NoCookies \in Jars
  BY DEF NoCookies, Jars, Messages
<1>7. NoConsent \in Asked
  BY DEF NoConsent, Asked
<1> QED
  BY <1>1, <1>2, <1>3, <1>4, <1>5, <1>6, <1>7

\* The form of a row names its action; a form of the login page has another.
LEMMA FormFacts ==
    /\ \A f \in Removals : f \in RowForms /\ f.action = "remove"
    /\ \A f \in Switches : f \in RowForms /\ f.action \in {"activate", "deactivate"}
    /\ \A f \in RowForms : f \in Forms
    /\ \A f \in SignIns : f \notin RowForms /\ f \in Forms /\ f # NoForm
    /\ OtherAction \in Forms /\ OtherAction \notin RowForms /\ OtherAction.action = "other"
    /\ \A f \in Forms : f.action = "remove" => f \in Removals
    /\ \A f \in Forms : f.action \in {"right password", "wrong password"} => f # NoForm
<1>1. \A f \in Removals : f \in RowForms /\ f.action = "remove"
  BY DEF RowForms, Removals
<1>2. \A f \in Switches : f \in RowForms /\ f.action \in {"activate", "deactivate"}
  BY DEF RowForms, Switches
<1>3. \A f \in RowForms : f \in Forms /\ f.action \in {"remove", "activate", "deactivate"}
  BY <1>1, <1>2 DEF Forms, RowForms
<1>4. \A f \in SignIns : f.action \in {"right password", "wrong password"}
  BY DEF SignIns
<1>5. NoForm.action = "none" /\ OtherAction.action = "other"
  BY DEF NoForm, OtherAction
<1>6. \A f \in SignIns : f \notin RowForms /\ f \in Forms /\ f # NoForm
  BY <1>3, <1>4, <1>5 DEF Forms
<1>7. OtherAction \in Forms /\ OtherAction \notin RowForms
  BY <1>3, <1>5 DEF Forms
<1>8. \A f \in Forms : f.action = "remove" => f \in Removals
  BY <1>2, <1>4, <1>5 DEF Forms, RowForms
<1> QED
  BY <1>1, <1>2, <1>3, <1>5, <1>6, <1>7, <1>8

\* The path of a form is a handler of forms, and the one for cron jobs gets their
\* forms only.
LEMMA ActionPathFacts ==
    /\ \A f : ActionPath(f) \in Paths /\ ActionPath(f) # "nested"
    /\ \A f \in RowForms : ActionPath(f) = "change-cron-job-status" => f \in Switches
<1>1. \A f : ActionPath(f) \in Paths /\ ActionPath(f) # "nested"
  BY DEF ActionPath, Paths, Lists
<1>2. \A f \in RowForms : ActionPath(f) = "change-cron-job-status" => f \in Switches
  BY FormFacts DEF ActionPath, RowForms
<1> QED
  BY <1>1, <1>2

\* A GET carries the parameters, the cookies of its moment and no form.
LEMMA GetFacts ==
    ASSUME jar \in Jars, NEW path \in Paths, NEW params \in Params
    PROVE  /\ Get(path, params) \in Requests
           /\ Get(path, params).path = path
           /\ Get(path, params).form = NoForm
           /\ ~Get(path, params).post
           /\ Get(path, params).hops = 0
           /\ path = "nested" => Get(path, params).astray
<1>1. jar.auth \in BOOLEAN /\ path \in Paths \cup {"none"} /\ (path = "nested") \in BOOLEAN
  BY DEF Jars
<1> QED
  BY <1>1, NothingTypes DEF Get, Requests

\* An address may carry a form.
LEMMA GetFormFacts ==
    ASSUME jar \in Jars, NEW form \in Forms
    PROVE  /\ GetForm(form) \in Requests
           /\ GetForm(form).path = ActionPath(form)
           /\ GetForm(form).form = form
           /\ ~GetForm(form).post
           /\ GetForm(form).hops = 0
<1> DEFINE path == ActionPath(form)
<1>1. NoParams \in Params /\ path \in Paths
  BY NothingTypes, ActionPathFacts
<1>2. /\ Get(path, NoParams) \in Requests /\ Get(path, NoParams).path = path
      /\ ~Get(path, NoParams).post /\ Get(path, NoParams).hops = 0
  BY <1>1, GetFacts
<1> QED
  BY <1>2 DEF GetForm, Requests

\* A POST carries its form and whether the browser is signed in.
LEMMA PostFacts ==
    ASSUME jar \in Jars, NEW path \in Paths, NEW form \in Forms
    PROVE  /\ Post(path, form) \in Requests
           /\ Post(path, form).path = path
           /\ Post(path, form).form = form
           /\ Post(path, form).hops = 0
<1>1. jar.auth \in BOOLEAN /\ path \in Paths \cup {"none"}
  BY DEF Jars
<1> QED
  BY <1>1, NothingTypes DEF Post, Requests

\* The request that follows a redirect of r.
Redirected(r, path, cookies) ==
    [NoReq EXCEPT !.path = path, !.auth = cookies.auth,
                  !.hops = r.hops + 1, !.astray = r.astray]

\* It is a GET without a form, one redirect further on.
LEMMA RedirectedFacts ==
    ASSUME NEW r \in Requests, r.hops < MaxHops, NEW path \in Paths, NEW cookies \in Jars
    PROVE  /\ Redirected(r, path, cookies) \in Requests
           /\ Redirected(r, path, cookies).path = path
           /\ Redirected(r, path, cookies).form = NoForm
           /\ ~Redirected(r, path, cookies).post
           /\ Redirected(r, path, cookies).hops = r.hops + 1
           /\ (Redirected(r, path, cookies).astray <=> r.astray)
<1>1. cookies.auth \in BOOLEAN /\ path \in Paths \cup {"none"}
  BY DEF Jars
<1>2. r.hops + 1 \in 0..MaxHops /\ r.astray \in BOOLEAN
  BY DEF Requests
<1> QED
  BY <1>1, <1>2, NothingTypes DEF Redirected, Requests

\* Setting one cookie leaves the others.
LEMMA CookieFacts ==
    ASSUME NEW cookies \in Jars
    PROVE  /\ cookies.auth \in BOOLEAN
           /\ cookies.flash \in Messages \cup {"none"}
           /\ \A m \in Messages \cup {"none"} :
                 /\ [cookies EXCEPT !.flash = m] \in Jars
                 /\ [cookies EXCEPT !.flash = m].flash = m
           /\ \A b \in BOOLEAN : /\ [cookies EXCEPT !.auth = b] \in Jars
                                 /\ [cookies EXCEPT !.auth = b].flash = cookies.flash
           /\ \A w \in {"invalid", "none"} :
                 /\ [cookies EXCEPT !.warning = w] \in Jars
                 /\ [cookies EXCEPT !.warning = w].flash = cookies.flash
  BY DEF Jars

\* The rows on a page have forms of rows, and the links are Boolean.
LEMMA PaginatedTypes ==
    ASSUME active \in [Crons -> BOOLEAN], NEW path \in Lists, NEW filter,
           NEW n \in Int, NEW total \in Nat
    PROVE  Paginated(path, filter, n, total) \in Views
<1>1. ASSUME NEW i \in RowsOfPage(path, filter, n) PROVE FormOf(path, i) \in RowForms
  <2>1. i \in Listing(path, filter)
    BY <1>1 DEF RowsOfPage
  <2>2. CASE path = "enqueued"
    BY <2>1, <2>2 DEF Listing, FormOf, RowForms, Removals, Switches
  <2>3. CASE path = "cron-jobs"
    BY <2>1, <2>3 DEF Listing, FormOf, RowForms, Removals, Switches
  <2> QED
    BY <2>2, <2>3 DEF Lists
<1>2. (n > 1) \in BOOLEAN /\ (n < TotalPages(total)) \in BOOLEAN
  OBVIOUS
<1> QED
  BY <1>1, <1>2 DEF Paginated, Views

\* A listing has a size.
LEMMA ListingSize == ASSUME NEW path, NEW filter PROVE Cardinality(Listing(path, filter)) \in Nat
<1>1. Listing(path, filter) \subseteq Jobs \/ Listing(path, filter) \subseteq Crons
  BY DEF Listing
<1>2. IsFiniteSet(Listing(path, filter))
  BY <1>1, FS_Subset
<1> QED
  BY <1>2, FS_CardinalityType
-----------------------------------------------------------------------------
(* Types.                                                                  *)

StoreTypes ==
    /\ status \in [Jobs \cup Crons -> {"unborn", "queued", "processing", "stuck", "removed"}]
    /\ active \in [Crons -> BOOLEAN]
DocumentTypes ==
    /\ title \in [Tabs -> {"", "charts", "login"} \cup Lists]
    /\ url \in [Tabs -> Params]
    /\ view \in [Tabs -> Views]
    /\ dialog \in [Tabs -> Dialogs]
RequestTypes ==
    /\ req \in [Tabs -> Requests]
    /\ consent \in [Tabs -> Asked]
BoundTypes == clicks \in 0..MaxClicks /\ events \in 0..MaxEvents

\* The type invariant, in parts.
LEMMA TypeParts ==
    TypeOK <=> /\ StoreTypes /\ jar \in Jars /\ DocumentTypes /\ RequestTypes
               /\ owed \in BOOLEAN /\ BoundTypes
  BY DEF TypeOK, StoreTypes, DocumentTypes, RequestTypes, BoundTypes, Requests, Asked, Views, Dialogs, Jars

\* A tab that sends a request leaves an empty document behind.
LEMMA SendTypes ==
    ASSUME DocumentTypes, RequestTypes, NEW t \in Tabs, NEW r \in Requests, NEW asked \in Asked,
           Send(t, r, asked)
    PROVE  DocumentTypes' /\ RequestTypes'
  BY NothingTypes DEF Send, Blank, DocumentTypes, RequestTypes

\* What an operator does keeps the types of the tabs.
LEMMA BrowseTypes ==
    ASSUME DocumentTypes, RequestTypes, jar \in Jars, NEW t \in Tabs, Browse(t)
    PROVE  DocumentTypes' /\ RequestTypes'
<1>1. ASSUME NEW path \in Paths, NEW params \in Params, Visit(t, path, params)
      PROVE  DocumentTypes' /\ RequestTypes'
  <2>1. Get(path, params) \in Requests
    BY GetFacts
  <2> QED
    BY <1>1, <2>1, SendTypes, NothingTypes DEF Visit
<1>2. ASSUME NEW p \in TypedPages PROVE [NoParams EXCEPT !.page = p] \in Params
  BY NothingTypes DEF Params
<1>3. ASSUME NEW filter \in Filters, SelectStatus(t, filter) PROVE DocumentTypes' /\ RequestTypes'
  <2>1. [NoParams EXCEPT !.status = filter] \in Params
    BY NothingTypes DEF Params
  <2>2. Get(title[t], [NoParams EXCEPT !.status = filter]) \in Requests
    BY <1>3, <2>1, GetFacts DEF SelectStatus, Paths
  <2> QED
    BY <1>3, <2>2, SendTypes, NothingTypes DEF SelectStatus
<1>4. ASSUME NEW action \in {"next", "prev"}, ClickPager(t, action)
      PROVE  DocumentTypes' /\ RequestTypes'
  <2> DEFINE n == goToPage(url[t].page, action)
             params == [url[t] EXCEPT !.page = Page(n)]
  <2>1. url[t] \in Params /\ url[t].page.num \in Int
    BY DEF DocumentTypes, Params
  <2>2. Page(n) \in [num : Int, clean : BOOLEAN]
    BY <2>1 DEF goToPage, Page
  <2>3. params \in Params
    BY <2>1, <2>2 DEF Params
  <2>4. Get(title[t], params) \in Requests
    BY <1>4, <2>3, GetFacts DEF ClickPager, Paths
  <2> QED
    BY <1>4, <2>4, SendTypes, NothingTypes DEF ClickPager
<1>5. ASSUME NEW form \in view[t].forms, Click(t, form) PROVE DocumentTypes' /\ RequestTypes'
  <2>1. form \in RowForms
    BY <1>5 DEF DocumentTypes, Views
  <2>2. [kind |-> "confirm", form |-> form] \in Dialogs
    BY <2>1 DEF Dialogs
  <2> QED
    BY <1>5, <2>2 DEF Click, DocumentTypes, RequestTypes
<1>6. ASSUME NEW isConfirmed \in BOOLEAN, Answer(t, isConfirmed)
      PROVE  DocumentTypes' /\ RequestTypes'
  <2>1. CASE isConfirmed
    <3> DEFINE form == dialog[t].form
               path == ActionPath(form)
               asked == [form |-> form, dialog |-> TRUE]
    <3>1. form \in RowForms
      BY <1>6 DEF Answer, DocumentTypes, Dialogs
    <3>2. Post(path, form) \in Requests
      BY <3>1, PostFacts, FormFacts, ActionPathFacts
    <3>3. asked \in Asked
      BY <3>1 DEF Asked
    <3>4. Send(t, Post(path, form), asked)
      BY <1>6, <2>1 DEF Answer, Submit
    <3> HIDE DEF path, asked
    <3> QED
      BY <3>2, <3>3, <3>4, SendTypes
  <2>2. CASE ~isConfirmed
    BY <1>6, <2>2, NothingTypes DEF Answer, DocumentTypes, RequestTypes
  <2> QED
    BY <2>1, <2>2
<1>7. ASSUME Dismiss(t) PROVE DocumentTypes' /\ RequestTypes'
  BY <1>7, NothingTypes DEF Dismiss, DocumentTypes, RequestTypes
<1>8. ASSUME NEW form \in SignIns, SignIn(t, form) PROVE DocumentTypes' /\ RequestTypes'
  <2>1. Post("login", form) \in Requests
    BY FormFacts, PostFacts DEF Paths
  <2> QED
    BY <1>8, <2>1, SendTypes, NothingTypes DEF SignIn
<1>9. ASSUME title[t] \in Lists, Visit(t, title[t], url[t]) PROVE DocumentTypes' /\ RequestTypes'
  BY <1>1, <1>9 DEF DocumentTypes, Paths
<1>10. ASSUME NEW form \in TypedForms, VisitAction(t, form) PROVE DocumentTypes' /\ RequestTypes'
  <2> DEFINE r == GetForm(form)
             asked == [form |-> form, dialog |-> FALSE]
  <2>1. form \in Forms
    BY FormFacts
  <2>2. r \in Requests
    BY <2>1, GetFormFacts
  <2>3. asked \in Asked
    BY DEF Asked
  <2>4. Send(t, r, asked)
    BY <1>10 DEF VisitAction
  <2> HIDE DEF r, asked
  <2> QED
    BY <2>2, <2>3, <2>4, SendTypes
<1> QED
  BY <1>1, <1>2, <1>3, <1>4, <1>5, <1>6, <1>7, <1>8, <1>9, <1>10, NothingTypes DEF Browse, Paths

\* Browsing changes neither the tables nor the cookies.
LEMMA BrowseFrame ==
    ASSUME NEW t \in Tabs, Browse(t)
    PROVE  UNCHANGED <<status, active, jar, owed, events>>
  BY DEF Browse, Visit, VisitAction, SelectStatus, ClickPager, Click, Answer, Dismiss, SignIn, store

\* A redirect is followed with the cookies it brought.
LEMMA SeeOtherTypes ==
    ASSUME DocumentTypes, RequestTypes, NEW t \in Tabs, NEW path \in Paths, NEW cookies \in Jars,
           SeeOther(t, path, cookies)
    PROVE  /\ DocumentTypes' /\ req' \in [Tabs -> Requests] /\ jar' \in Jars
           /\ UNCHANGED <<title, url, view, dialog>>
           /\ req' = [req EXCEPT ![t] = IF req[t].hops < MaxHops
                                        THEN Redirected(req[t], path, cookies) ELSE NoReq]
<1>1. req' = [req EXCEPT ![t] = IF req[t].hops < MaxHops
                                THEN Redirected(req[t], path, cookies) ELSE NoReq]
  BY DEF SeeOther, Redirected
<1>2. req[t] \in Requests
  BY DEF RequestTypes
<1>3. req[t].hops < MaxHops => Redirected(req[t], path, cookies) \in Requests
  BY <1>2, RedirectedFacts
<1>4. req' \in [Tabs -> Requests]
  BY <1>1, <1>3, NothingTypes DEF RequestTypes
<1> QED
  BY <1>1, <1>4 DEF SeeOther, document, DocumentTypes

\* So is an answer in plain text.
LEMMA PlainTextTypes ==
    ASSUME DocumentTypes, RequestTypes, NEW t \in Tabs, PlainText(t)
    PROVE  DocumentTypes' /\ req' \in [Tabs -> Requests] /\ UNCHANGED <<jar, title, url, view, dialog>>
  BY NothingTypes DEF PlainText, document, DocumentTypes, RequestTypes

\* A page that is served fills the document of its tab.
LEMMA PageTypes ==
    ASSUME DocumentTypes, RequestTypes, jar \in Jars, NEW t \in Tabs, NEW v \in Views,
           req[t].path \in Lists \cup {"charts", "login"}, Page200(t, v)
    PROVE  DocumentTypes' /\ req' \in [Tabs -> Requests] /\ jar' \in Jars /\ owed' \in BOOLEAN
<1>1. Title(req[t].path) \in {"", "charts", "login"} \cup Lists
  BY DEF Title, Lists
<1>2. req[t].params \in Params
  BY DEF RequestTypes, Requests
<1>3. /\ [NoDialog EXCEPT !.kind = "warning"] \in Dialogs
      /\ [NoDialog EXCEPT !.kind = "success"] \in Dialogs
  BY NothingTypes DEF Dialogs
<1>4. dialog' \in [Tabs -> Dialogs]
  BY <1>3, NothingTypes DEF Page200, Load, Show, DocumentTypes
<1>5. jar' \in Jars
  BY CookieFacts DEF Page200, Load, Show
<1> QED
  BY <1>1, <1>2, <1>4, <1>5, NothingTypes DEF Page200, Load, Show, DocumentTypes, RequestTypes

\* Serving a request keeps the types.
LEMMA ServeTypes ==
    ASSUME TypeOK, NEW t \in Tabs, Serve(t)
    PROVE  /\ StoreTypes' /\ jar' \in Jars /\ DocumentTypes' /\ RequestTypes'
           /\ owed' \in BOOLEAN /\ events' \in 0..MaxEvents
<1> DEFINE Kept == /\ StoreTypes' /\ jar' \in Jars /\ DocumentTypes' /\ RequestTypes'
                   /\ owed' \in BOOLEAN /\ events' \in 0..MaxEvents
<1>0. /\ StoreTypes /\ jar \in Jars /\ DocumentTypes /\ RequestTypes
      /\ owed \in BOOLEAN /\ events \in 0..MaxEvents
  BY TypeParts DEF BoundTypes
<1>1. ASSUME Event PROVE events' \in 0..MaxEvents
  BY <1>0, <1>1 DEF Event
<1>2. ASSUME UNCHANGED store PROVE StoreTypes'
  BY <1>0, <1>2 DEF store, StoreTypes
<1>3. ASSUME req' \in [Tabs -> Requests],
             UNCHANGED consent \/ consent' = [consent EXCEPT ![t] = NoConsent]
      PROVE  RequestTypes'
  BY <1>0, <1>3, NothingTypes DEF RequestTypes
<1>4. /\ "login" \in Paths /\ "charts" \in Paths /\ "enqueued" \in Paths /\ "cron-jobs" \in Paths
      /\ "nested" \in Paths /\ "none" \notin Paths
  BY DEF Paths, Lists
<1>5. CASE authMiddleware(t)
  BY <1>0, <1>2, <1>3, <1>4, <1>5, SeeOtherTypes DEF authMiddleware
<1>6. CASE ServeError(t)
  BY <1>0, <1>1, <1>2, <1>3, <1>6, PlainTextTypes DEF ServeError
<1>7. CASE CountRows(t)
  <2> DEFINE n == Cardinality(Listing(req[t].path, req[t].params.status))
             r == [req[t] EXCEPT !.total = n]
  <2>1. n \in Nat
    BY ListingSize
  <2>2. req[t] \in Requests
    BY <1>0 DEF RequestTypes
  <2>3. r \in Requests
    BY <2>1, <2>2 DEF Requests
  <2>4. req' = [req EXCEPT ![t] = r]
    BY <1>7 DEF CountRows
  <2>5. req' \in [Tabs -> Requests]
    BY <1>0, <2>3, <2>4 DEF RequestTypes
  <2>6. DocumentTypes'
    BY <1>0, <1>7 DEF CountRows, document, DocumentTypes
  <2> QED
    BY <1>0, <1>2, <1>3, <1>7, <2>5, <2>6 DEF CountRows
<1>8. CASE SelectRows(t)
  <2> DEFINE n == getPageNumber(req[t].params.page)
             v == Paginated(req[t].path, req[t].params.status, n, req[t].total)
  <2>1. req[t].total \in Nat /\ req[t].path \in Lists
    BY <1>0, <1>8 DEF SelectRows, RequestTypes, Requests
  <2>2. n \in Int
    BY <1>0 DEF getPageNumber, RequestTypes, Requests, Params
  <2>3. v \in Views
    BY <1>0, <2>1, <2>2, PaginatedTypes DEF StoreTypes
  <2>4. Page200(t, v)
    BY <1>8 DEF SelectRows
  <2> QED
    BY <1>0, <1>2, <1>3, <1>8, <2>1, <2>3, <2>4, PageTypes DEF SelectRows
<1>9. CASE handleDashboardAction(t)
  <2> DEFINE form == req[t].form
             cookies == [jar EXCEPT !.flash = "removed"]
  <2>1. cookies \in Jars
    BY <1>0, CookieFacts DEF Messages
  <2>2. /\ consent' = [consent EXCEPT ![t] = NoConsent] /\ active' = active
        /\ \/ /\ status' = [status EXCEPT ![form.id] = "removed"] \/ status' = status
              /\ owed' = TRUE /\ Reply(t, "enqueued", cookies)
           \/ PlainText(t) /\ UNCHANGED <<status, owed, events>>
    BY <1>9 DEF handleDashboardAction
  <2>3. StoreTypes'
    BY <1>0, <2>2 DEF StoreTypes
  <2>4. owed' \in BOOLEAN
    BY <1>0, <2>2
  <2>5. CASE SeeOther(t, "enqueued", cookies) /\ UNCHANGED events
    BY <1>0, <1>3, <1>4, <2>1, <2>2, <2>3, <2>4, <2>5, SeeOtherTypes
  <2>6. CASE PlainText(t) /\ (Event \/ UNCHANGED events)
    BY <1>0, <1>1, <1>3, <2>2, <2>3, <2>4, <2>6, PlainTextTypes
  <2> QED
    BY <2>2, <2>5, <2>6 DEF Reply
<1>10. CASE handleChangeCronJobStatus(t)
  <2> DEFINE form == req[t].form
             message == IF form.action = "activate" THEN "activated" ELSE "deactivated"
             cookies == [jar EXCEPT !.flash = message]
  <2>1. cookies \in Jars
    BY <1>0, CookieFacts DEF Messages
  <2>2. /\ consent' = [consent EXCEPT ![t] = NoConsent] /\ UNCHANGED <<status, owed>>
        /\ \/ PlainText(t) /\ UNCHANGED <<active, events>>
           \/ /\ active' = [active EXCEPT ![form.id] = form.action = "activate"]
              /\ Reply(t, "cron-jobs", cookies)
           \/ Event /\ SeeOther(t, "cron-jobs", cookies) /\ UNCHANGED active
    BY <1>10 DEF handleChangeCronJobStatus
  <2>3. active' \in [Crons -> BOOLEAN]
    <3>1. (form.action = "activate") \in BOOLEAN
      OBVIOUS
    <3>2. active \in [Crons -> BOOLEAN]
      BY <1>0 DEF StoreTypes
    <3>3. CASE UNCHANGED active
      BY <3>2, <3>3
    <3>4. CASE active' = [active EXCEPT ![form.id] = form.action = "activate"]
      <4> DEFINE b == (form.action = "activate")
      <4>1. active' = [active EXCEPT ![form.id] = b] /\ b \in BOOLEAN
        BY <3>1, <3>4
      <4> HIDE DEF b
      <4> QED
        BY <3>2, <4>1
    <3> QED
      BY <2>2, <3>3, <3>4
  <2>4. StoreTypes'
    BY <1>0, <2>2, <2>3 DEF StoreTypes
  <2>5. CASE PlainText(t) /\ UNCHANGED events
    BY <1>0, <1>3, <2>2, <2>4, <2>5, PlainTextTypes
  <2>6. CASE PlainText(t) /\ Event
    BY <1>0, <1>1, <1>3, <2>2, <2>4, <2>6, PlainTextTypes
  <2>7. CASE SeeOther(t, "cron-jobs", cookies)
    <3>1. events' \in 0..MaxEvents
      BY <1>0, <1>1, <2>2 DEF Reply
    <3> QED
      BY <1>0, <1>3, <1>4, <2>1, <2>2, <2>4, <2>7, <3>1, SeeOtherTypes
  <2> QED
    BY <2>2, <2>5, <2>6, <2>7 DEF Reply
<1>11. CASE handleCharts(t)
  BY <1>0, <1>2, <1>3, <1>11, PageTypes, NothingTypes DEF handleCharts, Admitted
<1>12. CASE handleIndex(t)
  BY <1>0, <1>2, <1>3, <1>4, <1>12, SeeOtherTypes DEF handleIndex
<1>13. CASE handleLogin(t)
  <2>1. /\ [jar EXCEPT !.auth = TRUE] \in Jars
        /\ [jar EXCEPT !.warning = "invalid"] \in Jars
    BY <1>0, CookieFacts
  <2>2. CASE Page200(t, NoView)
    BY <1>0, <1>2, <1>3, <1>13, <2>2, PageTypes, NothingTypes DEF handleLogin
  <2>3. CASE SeeOther(t, "charts", [jar EXCEPT !.auth = TRUE]) /\ owed' = owed
    BY <1>0, <1>2, <1>3, <1>4, <1>13, <2>1, <2>3, SeeOtherTypes DEF handleLogin
  <2>4. CASE SeeOther(t, "login", [jar EXCEPT !.warning = "invalid"]) /\ owed' = owed
    BY <1>0, <1>2, <1>3, <1>4, <1>13, <2>1, <2>4, SeeOtherTypes DEF handleLogin
  <2> QED
    BY <1>13, <2>2, <2>3, <2>4 DEF handleLogin
<1>14. CASE handleLogout(t)
  <2>1. [jar EXCEPT !.auth = FALSE] \in Jars
    BY <1>0, CookieFacts
  <2> QED
    BY <1>0, <1>2, <1>3, <1>4, <1>14, <2>1, SeeOtherTypes DEF handleLogout
<1> QED
  BY <1>5, <1>6, <1>7, <1>8, <1>9, <1>10, <1>11, <1>12, <1>13, <1>14 DEF Serve

\* What others do, and cookies that expire, leave the tabs alone.
LEMMA OthersFrame ==
    ASSUME TypeOK, Others
    PROVE  /\ StoreTypes' /\ jar' \in Jars /\ events' \in 0..MaxEvents
           /\ jar'.flash \in {jar.flash, "none"}
           /\ UNCHANGED <<title, url, view, dialog, req, consent, owed>>
<1>0. StoreTypes /\ jar \in Jars /\ events \in 0..MaxEvents
  BY TypeParts DEF BoundTypes
<1>1. ASSUME Event PROVE events' \in 0..MaxEvents
  BY <1>0, <1>1 DEF Event
<1>2. ASSUME NEW i \in Jobs \cup Crons, NEW s \in {"queued", "processing", "stuck", "removed"},
             OthersChangeRow(i, s)
      PROVE  StoreTypes' /\ events' \in 0..MaxEvents /\ UNCHANGED <<jar, document, req, consent, owed>>
  BY <1>0, <1>1, <1>2 DEF OthersChangeRow, StoreTypes
<1>3. ASSUME NEW c \in Crons, OthersChangeActive(c)
      PROVE  StoreTypes' /\ events' \in 0..MaxEvents /\ UNCHANGED <<jar, document, req, consent, owed>>
  <2>1. active' \in [Crons -> BOOLEAN]
    BY <1>0, <1>3 DEF OthersChangeActive, StoreTypes
  <2> QED
    BY <1>0, <1>1, <1>3, <2>1 DEF OthersChangeActive, StoreTypes
<1>4. ASSUME NEW name \in {"auth", "flash", "warning"}, Expire(name)
      PROVE  /\ StoreTypes' /\ jar' \in Jars /\ jar'.flash \in {jar.flash, "none"}
             /\ events' \in 0..MaxEvents /\ UNCHANGED <<document, req, consent, owed>>
  <2>1. NoCookies.auth = FALSE /\ NoCookies.flash = "none" /\ NoCookies.warning = "none"
    BY DEF NoCookies
  <2>5. StoreTypes' /\ events' \in 0..MaxEvents /\ UNCHANGED <<document, req, consent, owed>>
    BY <1>0, <1>4 DEF Expire, store, StoreTypes
  <2>2. CASE name = "auth"
    <3>1. jar' = [jar EXCEPT !.auth = FALSE]
      BY <1>4, <2>1, <2>2 DEF Expire
    <3>2. jar' \in Jars /\ jar'.flash \in {jar.flash, "none"}
      BY <1>0, <3>1 DEF Jars
    <3> QED
      BY <2>5, <3>2
  <2>3. CASE name = "flash"
    <3>1. jar' = [jar EXCEPT !.flash = "none"]
      BY <1>4, <2>1, <2>3 DEF Expire
    <3>2. jar' \in Jars /\ jar'.flash \in {jar.flash, "none"}
      BY <1>0, <3>1 DEF Jars
    <3> QED
      BY <2>5, <3>2
  <2>4. CASE name = "warning"
    <3>1. jar' = [jar EXCEPT !.warning = "none"]
      BY <1>4, <2>1, <2>4 DEF Expire
    <3>2. jar' \in Jars /\ jar'.flash \in {jar.flash, "none"}
      BY <1>0, <3>1 DEF Jars
    <3> QED
      BY <2>5, <3>2
  <2> QED
    BY <2>2, <2>3, <2>4
<1> QED
  BY <1>0, <1>2, <1>3, <1>4 DEF Others, document

\* Every step of Dashboard keeps the types.
LEMMA TypeInduction == TypeOK /\ [Next]_vars => TypeOK'
<1> SUFFICES ASSUME TypeOK, [Next]_vars PROVE TypeOK'
  OBVIOUS
<1>0. /\ StoreTypes /\ jar \in Jars /\ DocumentTypes /\ RequestTypes
      /\ owed \in BOOLEAN /\ clicks \in 0..MaxClicks /\ events \in 0..MaxEvents
  BY TypeParts DEF BoundTypes
<1>1. TypeOK' <=> /\ StoreTypes' /\ jar' \in Jars /\ DocumentTypes' /\ RequestTypes'
                  /\ owed' \in BOOLEAN /\ clicks' \in 0..MaxClicks /\ events' \in 0..MaxEvents
  BY DEF TypeOK, StoreTypes, DocumentTypes, RequestTypes, BoundTypes, Requests, Asked, Views, Dialogs, Jars
<1>2. ASSUME NEW t \in Tabs, Browse(t) PROVE TypeOK'
  <2>1. DocumentTypes' /\ RequestTypes'
    BY <1>0, <1>2, BrowseTypes
  <2>2. clicks' \in 0..MaxClicks
    BY <1>0, <1>2 DEF Browse
  <2> QED
    BY <1>0, <1>1, <1>2, <2>1, <2>2, BrowseFrame DEF StoreTypes
<1>3. ASSUME Others, UNCHANGED clicks PROVE TypeOK'
  BY <1>0, <1>1, <1>3, OthersFrame DEF DocumentTypes, RequestTypes
<1>4. ASSUME NEW t \in Tabs, Serve(t), UNCHANGED clicks PROVE TypeOK'
  BY <1>0, <1>1, <1>4, ServeTypes
<1>5. ASSUME UNCHANGED vars PROVE TypeOK'
  BY <1>0, <1>1, <1>5 DEF vars, store, document, StoreTypes, DocumentTypes, RequestTypes
<1> QED
  BY <1>2, <1>3, <1>4, <1>5 DEF Next

\* The tables, the cookies and every tab keep their types.
THEOREM TypeCorrect == Spec => []TypeOK
<1>1. Init => TypeOK
  <2> SUFFICES ASSUME Init PROVE TypeOK
    OBVIOUS
  <2>1. StoreTypes
    BY DEF Init, StoreTypes
  <2>2. jar \in Jars
    <3>1. PICK signedIn \in BOOLEAN : jar = [NoCookies EXCEPT !.auth = signedIn]
      BY DEF Init
    <3> QED
      BY <3>1, NothingTypes DEF Jars
  <2>3. DocumentTypes
    BY NothingTypes DEF Init, DocumentTypes
  <2>4. RequestTypes /\ owed \in BOOLEAN
    BY NothingTypes DEF Init, RequestTypes
  <2>5. BoundTypes
    <3>1. clicks = 0 /\ events = 0
      BY DEF Init
    <3> QED
      BY <3>1 DEF BoundTypes
  <2> QED
    BY <2>1, <2>2, <2>3, <2>4, <2>5, TypeParts
<1> QED
  BY <1>1, TypeInduction, PTL DEF Spec
-----------------------------------------------------------------------------
(* The message of success.                                                 *)

\* The cookie is set by an accepted action, deleted by every page that is loaded,
\* and never copied.
LEMMA SuccessInduction == TypeOK /\ SuccessIsReal /\ [Next]_vars => SuccessIsReal'
<1> SUFFICES ASSUME TypeOK, SuccessIsReal, [Next]_vars PROVE SuccessIsReal'
  OBVIOUS
<1>0. jar \in Jars
  BY TypeParts
<1>1. ASSUME jar'.flash = jar.flash, owed' = owed PROVE SuccessIsReal'
  BY <1>1 DEF SuccessIsReal
<1>2. ASSUME jar'.flash # "removed" PROVE SuccessIsReal'
  BY <1>2 DEF SuccessIsReal
<1>3. ASSUME NEW t \in Tabs, NEW v, Page200(t, v) PROVE SuccessIsReal'
  <2>1. jar'.flash = "none"
    BY <1>0, <1>3, CookieFacts DEF Page200, Load, Show
  <2> QED
    BY <1>2, <2>1
<1>4. ASSUME NEW t \in Tabs, Serve(t) PROVE SuccessIsReal'
  <2>1. CASE authMiddleware(t) \/ handleIndex(t) \/ ServeError(t) \/ CountRows(t)
    BY <1>1, <2>1 DEF authMiddleware, handleIndex, ServeError, CountRows, SeeOther, PlainText
  <2>2. CASE SelectRows(t) \/ handleCharts(t)
    BY <1>3, <2>2 DEF SelectRows, handleCharts
  <2>3. CASE handleDashboardAction(t)
    <3>1. owed' = TRUE \/ (PlainText(t) /\ owed' = owed)
      BY <2>3 DEF handleDashboardAction
    <3> QED
      BY <1>1, <3>1 DEF SuccessIsReal, PlainText
  <2>4. CASE handleChangeCronJobStatus(t)
    <3> DEFINE message == IF req[t].form.action = "activate" THEN "activated" ELSE "deactivated"
    <3>1. \/ PlainText(t) /\ owed' = owed
          \/ SeeOther(t, "cron-jobs", [jar EXCEPT !.flash = message])
      BY <2>4 DEF handleChangeCronJobStatus, Reply
    <3>2. message \in {"activated", "deactivated"} /\ message \in Messages
      BY DEF Messages
    <3>3. CASE PlainText(t) /\ owed' = owed
      BY <1>1, <3>3 DEF PlainText
    <3>4. CASE SeeOther(t, "cron-jobs", [jar EXCEPT !.flash = message])
      <4>1. jar'.flash = message
        BY <1>0, <3>2, <3>4, CookieFacts DEF SeeOther
      <4> QED
        BY <1>2, <3>2, <4>1
    <3> QED
      BY <3>1, <3>3, <3>4
  <2>5. CASE handleLogin(t)
    <3>1. CASE Page200(t, NoView)
      BY <1>3, <3>1
    <3>2. CASE owed' = owed /\ SeeOther(t, "charts", [jar EXCEPT !.auth = TRUE])
      BY <1>0, <1>1, <3>2, CookieFacts DEF SeeOther
    <3>3. CASE owed' = owed /\ SeeOther(t, "login", [jar EXCEPT !.warning = "invalid"])
      BY <1>0, <1>1, <3>3, CookieFacts DEF SeeOther
    <3> QED
      BY <2>5, <3>1, <3>2, <3>3 DEF handleLogin
  <2>6. CASE handleLogout(t)
    BY <1>0, <1>1, <2>6, CookieFacts DEF handleLogout, SeeOther
  <2> QED
    BY <1>4, <2>1, <2>2, <2>3, <2>4, <2>5, <2>6 DEF Serve
<1>5. ASSUME NEW t \in Tabs, Browse(t) PROVE SuccessIsReal'
  BY <1>1, <1>5, BrowseFrame
<1>6. ASSUME Others PROVE SuccessIsReal'
  BY <1>1, <1>2, <1>6, OthersFrame
<1>7. ASSUME UNCHANGED vars PROVE SuccessIsReal'
  BY <1>1, <1>7 DEF vars
<1> QED
  BY <1>4, <1>5, <1>6, <1>7 DEF Next

\* "Job removed" is announced for an action that /enqueued accepted from this
\* browser and that was not announced before, whatever the tabs, the other
\* operators and lost answers do.
THEOREM RemovalIsAnnouncedOnce == Spec => []SuccessIsReal
<1>1. Init => SuccessIsReal
  <2> SUFFICES ASSUME Init PROVE jar.flash # "removed"
    BY DEF SuccessIsReal
  <2>1. PICK signedIn \in BOOLEAN : jar = [NoCookies EXCEPT !.auth = signedIn]
    BY DEF Init
  <2> QED
    BY <2>1 DEF NoCookies
<1> QED
  BY <1>1, SuccessInduction, TypeCorrect, PTL DEF Spec
-----------------------------------------------------------------------------
(* The links of the lists.                                                 *)

\* A list on display is the page its address asks for, with the links the
\* server computed for that page.
ListOnDisplay ==
    \A t \in Tabs : title[t] \in Lists =>
        /\ view[t].num = getPageNumber(url[t].page)
        /\ view[t].prev <=> view[t].num > 1
        /\ view[t].next <=> view[t].num < TotalPages(view[t].total)

\* A tab keeps its document, or shows none or one without a list, or is served
\* a list.
LEMMA DocumentChange ==
    ASSUME TypeOK, [Next]_vars, NEW u \in Tabs
    PROVE  \/ title'[u] = title[u] /\ url'[u] = url[u] /\ view'[u] = view[u]
           \/ title'[u] \notin Lists
           \/ SelectRows(u)
<1> DEFINE Kept == title'[u] = title[u] /\ url'[u] = url[u] /\ view'[u] = view[u]
<1>0. DocumentTypes
  BY TypeParts
<1>1. ASSUME UNCHANGED <<title, url, view>> PROVE Kept
  BY <1>1
<1>2. ASSUME NEW t \in Tabs, Blank(t) PROVE Kept \/ title'[u] \notin Lists
  <2>1. CASE t = u
    BY <1>0, <1>2, <2>1 DEF Blank, DocumentTypes, Lists
  <2>2. CASE t # u
    BY <1>0, <1>2, <2>2 DEF Blank, DocumentTypes
  <2> QED
    BY <2>1, <2>2
<1>3. ASSUME NEW t \in Tabs, Browse(t) PROVE Kept \/ title'[u] \notin Lists
  <2>1. Blank(t) \/ UNCHANGED <<title, url, view>>
    BY <1>3 DEF Browse, Visit, VisitAction, SelectStatus, ClickPager, Click, Answer, Submit, Dismiss, SignIn, Send
  <2> QED
    BY <1>1, <1>2, <2>1
<1>4. ASSUME NEW t \in Tabs, NEW v, Page200(t, v), req[t].path \in {"charts", "login"}
      PROVE  Kept \/ title'[u] \notin Lists
  <2>1. CASE t = u
    BY <1>0, <1>4, <2>1 DEF Page200, Load, Show, Title, DocumentTypes, Lists
  <2>2. CASE t # u
    BY <1>0, <1>4, <2>2 DEF Page200, Load, Show, DocumentTypes
  <2> QED
    BY <2>1, <2>2
<1>5. ASSUME NEW t \in Tabs, SelectRows(t) PROVE Kept \/ SelectRows(u)
  <2>1. CASE t = u
    BY <1>5, <2>1
  <2>2. CASE t # u
    BY <1>0, <1>5, <2>2 DEF SelectRows, Page200, Load, Show, DocumentTypes
  <2> QED
    BY <2>1, <2>2
<1>6. ASSUME NEW t \in Tabs, Serve(t) PROVE Kept \/ title'[u] \notin Lists \/ SelectRows(u)
  <2>1. \/ UNCHANGED document
        \/ SelectRows(t)
        \/ Page200(t, NoView) /\ req[t].path \in {"charts", "login"}
    BY <1>6 DEF Serve, authMiddleware, ServeError, CountRows, handleDashboardAction,
       handleChangeCronJobStatus, handleCharts, handleIndex, handleLogin, handleLogout,
       Reply, SeeOther, PlainText, Admitted
  <2> QED
    BY <1>1, <1>4, <1>5, <2>1 DEF document
<1>7. ASSUME Others PROVE Kept
  BY <1>1, <1>7, OthersFrame
<1>8. ASSUME UNCHANGED vars PROVE Kept
  BY <1>1, <1>8 DEF vars, document
<1> QED
  BY <1>3, <1>6, <1>7, <1>8 DEF Next

\* Every list that is served shows the page its address asks for.
LEMMA DisplayInduction == TypeOK /\ ListOnDisplay /\ [Next]_vars => ListOnDisplay'
<1> SUFFICES ASSUME TypeOK, ListOnDisplay, [Next]_vars, NEW u \in Tabs, title'[u] \in Lists
             PROVE  /\ view'[u].num = getPageNumber(url'[u].page)
                    /\ view'[u].prev <=> view'[u].num > 1
                    /\ view'[u].next <=> view'[u].num < TotalPages(view'[u].total)
  BY DEF ListOnDisplay
<1>1. CASE title'[u] = title[u] /\ url'[u] = url[u] /\ view'[u] = view[u]
  BY <1>1 DEF ListOnDisplay
<1>2. CASE SelectRows(u)
  <2> DEFINE n == getPageNumber(req[u].params.page)
  <2>1. /\ view'[u] = Paginated(req[u].path, req[u].params.status, n, req[u].total)
        /\ url'[u] = req[u].params
    BY <1>2, TypeParts DEF SelectRows, Page200, Load, Show, DocumentTypes
  <2>2. /\ view'[u].num = n /\ view'[u].total = req[u].total
        /\ view'[u].prev = (n > 1) /\ view'[u].next = (n < TotalPages(req[u].total))
    BY <2>1 DEF Paginated
  <2> QED
    BY <2>1, <2>2
<1> QED
  BY <1>1, <1>2, DocumentChange

\* So it is in every behaviour.
LEMMA DisplayInvariant == Spec => [](TypeOK /\ ListOnDisplay)
<1>1. Init => ListOnDisplay
  BY DEF Init, ListOnDisplay, Lists
<1> QED
  BY <1>1, DisplayInduction, TypeCorrect, PTL DEF Spec

\* The last page is numbered so that no row lies beyond it.
LEMMA LastPageIsLast ==
    ASSUME NEW total \in Nat, NEW n \in Nat, ~(n < TotalPages(total))
    PROVE  total <= n * PageSize
<1> DEFINE q == (total + PageSize - 1) \div PageSize
<1>1. PageSize \in Nat \ {0} /\ total + PageSize - 1 \in Nat
  OBVIOUS
<1>2. q \in Int /\ q <= n
  BY <1>1 DEF TotalPages
<1>3. total + PageSize - 1 < (q + 1) * PageSize
  BY <1>1
<1>4. q * PageSize <= n * PageSize
  BY <1>1, <1>2
<1>5. (q + 1) * PageSize = q * PageSize + PageSize
  BY <1>1, <1>2
<1> HIDE DEF q
<1>6. q * PageSize \in Int /\ n * PageSize \in Int
  BY <1>1, <1>2
<1> QED
  BY <1>1, <1>3, <1>4, <1>5, <1>6

\* A page number the server counts with is at least 1.
LEMMA PageNumberFacts ==
    ASSUME NEW p \in [num : Int, clean : BOOLEAN]
    PROVE  getPageNumber(p) \in Nat \ {0}
  BY DEF getPageNumber

\* From every list an operator reaches every counted row: there is a link to
\* the next page as long as rows lie beyond this one, and a link back from
\* every page but the first, also when rows went away since.
THEOREM ListsHaveNoDeadEnd == Spec => []NoDeadEnd
<1>1. TypeOK /\ ListOnDisplay => NoDeadEnd
  <2> SUFFICES ASSUME TypeOK, ListOnDisplay, NEW t \in Tabs, title[t] \in Lists
               PROVE  /\ ~view[t].next => view[t].total <= view[t].num * PageSize
                      /\ view[t].num # 1 => view[t].prev
    BY DEF NoDeadEnd
  <2>1. view[t].total \in Nat /\ url[t].page \in [num : Int, clean : BOOLEAN]
    BY TypeParts DEF DocumentTypes, Views, Params
  <2>2. view[t].num \in Nat \ {0}
    BY <2>1, PageNumberFacts DEF ListOnDisplay
  <2>3. ~view[t].next => view[t].total <= view[t].num * PageSize
    BY <2>1, <2>2, LastPageIsLast DEF ListOnDisplay
  <2>4. view[t].num # 1 => view[t].prev
    BY <2>2 DEF ListOnDisplay
  <2> QED
    BY <2>3, <2>4
<1> QED
  BY <1>1, DisplayInvariant, PTL

\* The page goToPage computes in the browser is the one before or after the
\* page the server showed, for every address without a page, with page 0 or
\* with a number and nothing after it.
THEOREM PagerAgreesWithServer == Spec => []PagerInStep
<1>1. TypeOK /\ ListOnDisplay => PagerInStep
  <2> SUFFICES ASSUME TypeOK, ListOnDisplay, NEW t \in Tabs, title[t] \in Lists,
                      \/ url[t].page = NoPage
                      \/ url[t].page.clean /\ url[t].page.num >= 0
               PROVE  /\ view[t].next =>
                            getPageNumber(Page(goToPage(url[t].page, "next"))) = view[t].num + 1
                      /\ view[t].prev =>
                            /\ goToPage(url[t].page, "prev") >= 1
                            /\ getPageNumber(Page(goToPage(url[t].page, "prev"))) = view[t].num - 1
    BY DEF PagerInStep
  <2>1. PICK p \in [num : Int, clean : BOOLEAN] : p = url[t].page
    BY TypeParts DEF DocumentTypes, Params
  <2>2. view[t].num = getPageNumber(p) /\ (view[t].prev => view[t].num > 1)
    BY <2>1 DEF ListOnDisplay
  <2>3. \/ p.num = 0 /\ view[t].num = 1
        \/ p.num >= 1 /\ view[t].num = p.num
    BY <2>1, <2>2 DEF getPageNumber, NoPage
  <2>4. \A n \in Int : n >= 1 => getPageNumber(Page(n)) = n
    BY DEF getPageNumber, Page
  <2>5. goToPage(p, "next") = view[t].num + 1 /\ goToPage(p, "prev") = view[t].num - 1
    BY <2>3 DEF goToPage
  <2>6. view[t].num \in Int /\ view[t].num >= 1
    BY <2>3
  <2>7. getPageNumber(Page(goToPage(p, "next"))) = view[t].num + 1
    BY <2>4, <2>5, <2>6
  <2>8. ASSUME view[t].prev
        PROVE  /\ goToPage(p, "prev") >= 1
               /\ getPageNumber(Page(goToPage(p, "prev"))) = view[t].num - 1
    BY <2>2, <2>4, <2>5, <2>6, <2>8
  <2> QED
    BY <2>1, <2>7, <2>8
<1> QED
  BY <1>1, DisplayInvariant, PTL
-----------------------------------------------------------------------------
(* The requests.                                                           *)

\* How many redirects may lie behind a request, by its path, when the first of
\* them was not in an unknown directory: nothing redirects to the paths of the
\* first group, only a handler to those of the second, and the middleware in turn
\* to the login page.
Limit(path) ==
    IF path \in {"/", "nested", "Logout", "change-cron-job-status"} THEN 0
    ELSE IF path \in Lists \cup {"charts"} THEN 1 ELSE 2

\* A request r and what the operator asked for, c: a form is never behind a
\* redirect, the form of a row is the one the operator asked for, and what is
\* posted to the handler of the cron jobs was confirmed in a dialog.
Traced(r, c) ==
    /\ r.hops <= Limit(r.path) \/ r.astray
    /\ r.path = "nested" => r.astray
    /\ r.form # NoForm => r.hops = 0
    /\ r.form \in RowForms => c.form = r.form
    /\ r.post /\ r.path = "change-cron-job-status" => r.form \in Switches /\ c.dialog

RequestsTraced == \A t \in Tabs : Traced(req[t], consent[t])

\* No limit is negative.
LEMMA LimitFacts == \A path : Limit(path) \in 0..2
  BY DEF Limit

\* A GET without a form can be traced, whatever was asked for.
LEMMA GetTraced ==
    ASSUME jar \in Jars, NEW path \in Paths, NEW params \in Params, NEW c
    PROVE  Traced(Get(path, params), c)
  BY GetFacts, NothingTypes, LimitFacts DEF Traced

\* So can no request.
LEMMA NothingTraced == \A c : Traced(NoReq, c)
  BY NothingTypes, LimitFacts DEF Traced

\* A step that gives tab t a request that can be traced keeps all others.
LEMMA TracedUpdate ==
    ASSUME RequestTypes, RequestsTraced, NEW t \in Tabs, NEW r, NEW c,
           req' = [req EXCEPT ![t] = r],
           consent' = [consent EXCEPT ![t] = c],
           Traced(r, c)
    PROVE  RequestsTraced'
<1>1. req \in [Tabs -> Requests] /\ consent \in [Tabs -> Asked]
  BY DEF RequestTypes
<1>2. /\ req'[t] = r /\ consent'[t] = c
      /\ \A u \in Tabs \ {t} : req'[u] = req[u] /\ consent'[u] = consent[u]
  BY <1>1
<1>3. \A u \in Tabs : Traced(req'[u], consent'[u])
  BY <1>2 DEF RequestsTraced
<1> QED
  BY <1>3 DEF RequestsTraced

\* What an operator does can be traced.
LEMMA BrowseTraced ==
    ASSUME TypeOK, RequestsTraced, NEW t \in Tabs, Browse(t)
    PROVE  RequestsTraced'
<1>0. DocumentTypes /\ RequestTypes /\ jar \in Jars
  BY TypeParts
<1>2. ASSUME NEW path \in Paths, NEW params \in Params, Send(t, Get(path, params), NoConsent)
      PROVE  RequestsTraced'
  <2>1. Traced(Get(path, params), NoConsent)
    BY <1>0, GetTraced
  <2> QED
    BY <1>0, <1>2, <2>1, TracedUpdate DEF Send
<1>3. ASSUME NEW params \in Params, title[t] \in Lists, Send(t, Get(title[t], params), NoConsent)
      PROVE  RequestsTraced'
  BY <1>2, <1>3 DEF Paths
<1>4. ASSUME NEW action, ClickPager(t, action) PROVE RequestsTraced'
  <2> DEFINE n == goToPage(url[t].page, action)
             params == [url[t] EXCEPT !.page = Page(n)]
  <2>1. url[t] \in Params /\ url[t].page.num \in Int
    BY <1>0 DEF DocumentTypes, Params
  <2>2. Page(n) \in [num : Int, clean : BOOLEAN]
    BY <2>1 DEF goToPage, Page
  <2>3. params \in Params
    BY <2>1, <2>2 DEF Params
  <2> QED
    BY <1>3, <1>4, <2>3 DEF ClickPager
<1>5. ASSUME NEW isConfirmed \in BOOLEAN, Answer(t, isConfirmed) PROVE RequestsTraced'
  <2>1. CASE isConfirmed
    <3> DEFINE form == dialog[t].form
               path == ActionPath(form)
               asked == [form |-> form, dialog |-> TRUE]
    <3>1. form \in RowForms /\ form \in Forms /\ path \in Paths
      BY <1>0, <1>5, FormFacts, ActionPathFacts DEF Answer, DocumentTypes, Dialogs
    <3>2. Send(t, Post(path, form), asked)
      BY <1>5, <2>1 DEF Answer, Submit
    <3>3. Traced(Post(path, form), asked)
      <4>1. /\ Post(path, form).path = path /\ Post(path, form).form = form
            /\ Post(path, form).hops = 0
        BY <1>0, <3>1, PostFacts
      <4>2. path # "nested" /\ (path = "change-cron-job-status" => form \in Switches)
        BY <3>1, ActionPathFacts
      <4>3. asked.form = form /\ asked.dialog
        OBVIOUS
      <4> HIDE DEF path, asked
      <4> QED
        BY <4>1, <4>2, <4>3, LimitFacts DEF Traced
    <3> HIDE DEF path, asked
    <3> QED
      BY <1>0, <3>2, <3>3, TracedUpdate DEF Send
  <2>2. CASE ~isConfirmed
    BY <1>5, <2>2 DEF Answer, RequestsTraced
  <2> QED
    BY <2>1, <2>2
<1>6. ASSUME NEW form \in SignIns, SignIn(t, form) PROVE RequestsTraced'
  <2>1. Traced(Post("login", form), NoConsent)
    <3>1. "login" \in Paths /\ form \in Forms /\ form \notin RowForms
      BY FormFacts DEF Paths
    <3>2. /\ Post("login", form).path = "login"
          /\ Post("login", form).form = form /\ Post("login", form).hops = 0
      BY <1>0, <3>1, PostFacts
    <3> QED
      BY <3>1, <3>2, LimitFacts DEF Traced
  <2> QED
    BY <1>0, <1>6, <2>1, TracedUpdate DEF SignIn, Send
<1>7. ASSUME NEW form, Click(t, form) \/ Dismiss(t) PROVE RequestsTraced'
  BY <1>7 DEF Click, Dismiss, RequestsTraced
<1>8. ASSUME NEW p \in TypedPages PROVE [NoParams EXCEPT !.page = p] \in Params
  BY NothingTypes DEF Params
<1>9. ASSUME NEW filter \in Filters PROVE [NoParams EXCEPT !.status = filter] \in Params
  BY NothingTypes DEF Params
<1>10. url[t] \in Params /\ NoParams \in Params /\ Lists \subseteq Paths
  BY <1>0, NothingTypes DEF DocumentTypes, Paths
<1>11. ASSUME NEW filter \in Filters, SelectStatus(t, filter) PROVE RequestsTraced'
  BY <1>3, <1>9, <1>11 DEF SelectStatus
<1>12. ASSUME NEW path \in Paths, NEW params \in Params, Visit(t, path, params)
       PROVE  RequestsTraced'
  BY <1>2, <1>12 DEF Visit
<1>13. ASSUME NEW form \in TypedForms, VisitAction(t, form) PROVE RequestsTraced'
  <2> DEFINE r == GetForm(form)
             asked == [form |-> form, dialog |-> FALSE]
  <2>1. form \in Forms
    BY FormFacts
  <2>2. /\ r.path = ActionPath(form) /\ r.form = form /\ ~r.post /\ r.hops = 0
        /\ r.path # "nested"
    BY <1>0, <2>1, ActionPathFacts, GetFormFacts
  <2>3. Send(t, r, asked) /\ asked.form = form
    BY <1>13 DEF VisitAction
  <2> HIDE DEF r, asked
  <2>4. Traced(r, asked)
    BY <2>2, <2>3, LimitFacts DEF Traced
  <2> QED
    BY <1>0, <2>3, <2>4, TracedUpdate DEF Send
<1> QED
  BY <1>4, <1>5, <1>6, <1>7, <1>8, <1>10, <1>11, <1>12, <1>13 DEF Browse

\* Every redirect stays within the limit of the path it leads to.
LEMMA RedirectTraced ==
    ASSUME TypeOK, RequestsTraced, NEW t \in Tabs, NEW path \in Paths, NEW cookies \in Jars,
           SeeOther(t, path, cookies),
           req[t].hops + 1 <= Limit(path) \/ req[t].astray,
           path = "nested" => req[t].astray,
           UNCHANGED consent \/ consent' = [consent EXCEPT ![t] = NoConsent]
    PROVE  RequestsTraced'
<1>0. RequestTypes /\ req[t] \in Requests
  BY TypeParts DEF RequestTypes
<1> DEFINE r == IF req[t].hops < MaxHops THEN Redirected(req[t], path, cookies) ELSE NoReq
<1>1. req' = [req EXCEPT ![t] = r]
  BY DEF SeeOther, Redirected
<1>2. \A c : Traced(r, c)
  <2>1. CASE req[t].hops < MaxHops
    BY <1>0, <2>1, RedirectedFacts, NothingTypes DEF Traced
  <2>2. CASE ~(req[t].hops < MaxHops)
    BY <2>2, NothingTraced
  <2> QED
    BY <2>1, <2>2
<1>3. consent' = [consent EXCEPT ![t] = NoConsent] \/ consent' = [consent EXCEPT ![t] = consent[t]]
  BY <1>0 DEF RequestTypes
<1> HIDE DEF r
<1> QED
  BY <1>0, <1>1, <1>2, <1>3, TracedUpdate

\* What the server answers can be traced.
LEMMA ServeTraced ==
    ASSUME TypeOK, RequestsTraced, NEW t \in Tabs, Serve(t)
    PROVE  RequestsTraced'
<1>0. RequestTypes /\ jar \in Jars /\ req[t] \in Requests /\ Traced(req[t], consent[t])
  BY TypeParts DEF RequestTypes, RequestsTraced
<1>1. /\ "login" \in Paths /\ "charts" \in Paths /\ "enqueued" \in Paths /\ "cron-jobs" \in Paths
      /\ Limit("login") = 2 /\ Limit("charts") = 1
      /\ Limit("enqueued") = 1 /\ Limit("cron-jobs") = 1
  BY DEF Paths, Lists, Limit
<1>2. req[t].hops \in Nat /\ req[t].form \in Forms /\ req[t].path \in Paths \cup {"none"}
  BY <1>0 DEF Requests
<1>3. ASSUME req' = [req EXCEPT ![t] = NoReq],
             UNCHANGED consent \/ consent' = [consent EXCEPT ![t] = NoConsent]
      PROVE  RequestsTraced'
  <2>1. consent' = [consent EXCEPT ![t] = NoConsent] \/ consent' = [consent EXCEPT ![t] = consent[t]]
    BY <1>0, <1>3 DEF RequestTypes
  <2> QED
    BY <1>0, <1>3, <2>1, NothingTraced, TracedUpdate
<1>4. CASE authMiddleware(t)
  <2>1. req[t].path \in Paths /\ req[t].path # "login"
    BY <1>2, <1>4 DEF authMiddleware
  <2>2. req[t].hops <= 1 \/ req[t].astray
    BY <1>0, <1>2, <2>1 DEF Traced, Limit, Paths
  <2>3. req[t].hops + 1 <= Limit("login") \/ req[t].astray
    BY <1>1, <1>2, <2>2
  <2>4. SeeOther(t, "login", jar) /\ consent' = [consent EXCEPT ![t] = NoConsent]
    BY <1>4 DEF authMiddleware
  <2> QED
    BY <1>0, <1>1, <2>3, <2>4, RedirectTraced
<1>5. CASE ServeError(t)
  BY <1>3, <1>5 DEF ServeError, PlainText
<1>6. CASE CountRows(t)
  <2> DEFINE n == Cardinality(Listing(req[t].path, req[t].params.status))
             r == [req[t] EXCEPT !.total = n]
  <2>1. /\ r.path = req[t].path /\ r.form = req[t].form /\ r.hops = req[t].hops
        /\ r.post = req[t].post /\ r.astray = req[t].astray
    BY <1>0 DEF Requests
  <2>2. Traced(r, consent[t])
    BY <1>0, <2>1 DEF Traced
  <2>3. req' = [req EXCEPT ![t] = r] /\ consent' = [consent EXCEPT ![t] = consent[t]]
    BY <1>0, <1>6 DEF CountRows, RequestTypes
  <2> QED
    BY <1>0, <2>2, <2>3, TracedUpdate
<1>7. CASE SelectRows(t) \/ handleCharts(t)
  BY <1>3, <1>7 DEF SelectRows, handleCharts, Page200
<1>8. CASE handleDashboardAction(t)
  <2>1. req[t].hops = 0
    BY <1>0, <1>2, <1>8 DEF handleDashboardAction, Traced
  <2>2. \/ PlainText(t)
        \/ SeeOther(t, "enqueued", [jar EXCEPT !.flash = "removed"])
    BY <1>8 DEF handleDashboardAction, Reply
  <2>3. [jar EXCEPT !.flash = "removed"] \in Jars
    BY <1>0, CookieFacts DEF Messages
  <2>4. consent' = [consent EXCEPT ![t] = NoConsent]
    BY <1>8 DEF handleDashboardAction
  <2>5. req[t].hops + 1 <= Limit("enqueued")
    BY <1>1, <2>1
  <2>6. CASE PlainText(t)
    BY <1>3, <2>4, <2>6 DEF PlainText
  <2>7. CASE SeeOther(t, "enqueued", [jar EXCEPT !.flash = "removed"])
    BY <1>1, <2>3, <2>4, <2>5, <2>7, RedirectTraced
  <2> QED
    BY <2>2, <2>6, <2>7
<1>9. CASE handleChangeCronJobStatus(t)
  <2> DEFINE message == IF req[t].form.action = "activate" THEN "activated" ELSE "deactivated"
             cookies == [jar EXCEPT !.flash = message]
  <2>1. req[t].hops = 0 \/ req[t].astray
    BY <1>0, <1>2, <1>9 DEF handleChangeCronJobStatus, Admitted, Traced, Limit
  <2>2. PlainText(t) \/ SeeOther(t, "cron-jobs", cookies)
    BY <1>9 DEF handleChangeCronJobStatus, Reply
  <2>3. cookies \in Jars
    BY <1>0, CookieFacts DEF Messages
  <2>4. consent' = [consent EXCEPT ![t] = NoConsent]
    BY <1>9 DEF handleChangeCronJobStatus
  <2>5. req[t].hops + 1 <= Limit("cron-jobs") \/ req[t].astray
    BY <1>1, <2>1
  <2> HIDE DEF cookies
  <2>6. CASE PlainText(t)
    BY <1>3, <2>4, <2>6 DEF PlainText
  <2>7. CASE SeeOther(t, "cron-jobs", cookies)
    BY <1>1, <2>3, <2>4, <2>5, <2>7, RedirectTraced
  <2> QED
    BY <2>2, <2>6, <2>7
<1>10. CASE handleIndex(t)
  <2>1. CASE Admitted(t, "/") /\ SeeOther(t, "charts", jar)
    <3>1. req[t].hops = 0 \/ req[t].astray
      BY <1>0, <1>2, <2>1 DEF Admitted, Traced, Limit
    <3> QED
      BY <1>0, <1>1, <1>10, <2>1, <3>1, RedirectTraced DEF handleIndex
  <2>2. CASE Admitted(t, "nested") /\ SeeOther(t, "nested", jar)
    <3>1. req[t].astray /\ "nested" \in Paths
      BY <1>0, <2>2 DEF Admitted, Traced, Paths
    <3> QED
      BY <1>0, <1>10, <2>2, <3>1, RedirectTraced DEF handleIndex
  <2> QED
    BY <1>10, <2>1, <2>2 DEF handleIndex
<1>11. CASE handleLogin(t)
  <2>1. CASE Page200(t, NoView)
    BY <1>3, <1>11, <2>1 DEF handleLogin, Page200
  <2>2. CASE req[t].form.action \in {"right password", "wrong password"}
    <3>1. req[t].hops = 0
      BY <1>0, <1>2, <2>2, FormFacts DEF Traced
    <3>2. /\ [jar EXCEPT !.auth = TRUE] \in Jars
          /\ [jar EXCEPT !.warning = "invalid"] \in Jars
      BY <1>0, CookieFacts
    <3>3. UNCHANGED consent
      BY <1>11 DEF handleLogin
    <3>4. CASE SeeOther(t, "charts", [jar EXCEPT !.auth = TRUE])
      BY <1>1, <3>1, <3>2, <3>3, <3>4, RedirectTraced
    <3>5. CASE SeeOther(t, "login", [jar EXCEPT !.warning = "invalid"])
      BY <1>1, <3>1, <3>2, <3>3, <3>5, RedirectTraced
    <3> QED
      BY <1>11, <2>1, <3>4, <3>5 DEF handleLogin
  <2> QED
    BY <1>11, <2>1, <2>2 DEF handleLogin
<1>12. CASE handleLogout(t)
  <2>1. req[t].hops = 0 \/ req[t].astray
    BY <1>0, <1>2, <1>12 DEF handleLogout, Traced, Limit
  <2>2. [jar EXCEPT !.auth = FALSE] \in Jars
    BY <1>0, CookieFacts
  <2> QED
    BY <1>1, <1>12, <2>1, <2>2, RedirectTraced DEF handleLogout
<1> QED
  BY <1>4, <1>5, <1>6, <1>7, <1>8, <1>9, <1>10, <1>11, <1>12 DEF Serve

\* Every request can be traced, in every behaviour.
LEMMA TracedInvariant == Spec => [](TypeOK /\ RequestsTraced)
<1>1. Init => RequestsTraced
  <2> SUFFICES ASSUME Init, NEW t \in Tabs PROVE Traced(req[t], consent[t])
    BY DEF RequestsTraced
  <2>1. req[t] = NoReq
    BY DEF Init
  <2> QED
    BY <2>1, NothingTraced
<1>2. TypeOK /\ RequestsTraced /\ [Next]_vars => RequestsTraced'
  <2> SUFFICES ASSUME TypeOK, RequestsTraced, [Next]_vars PROVE RequestsTraced'
    OBVIOUS
  <2>1. ASSUME UNCHANGED <<req, consent>> PROVE RequestsTraced'
    BY <2>1 DEF RequestsTraced
  <2>2. CASE Others
    BY <2>1, <2>2, OthersFrame
  <2>3. CASE UNCHANGED vars
    BY <2>1, <2>3 DEF vars
  <2> QED
    BY <2>2, <2>3, BrowseTraced, ServeTraced DEF Next
<1> QED
  BY <1>1, <1>2, TypeCorrect, PTL DEF Spec

\* Every chain of redirects is at most two long, whenever the session ends, but
\* for those that begin below an unknown directory.
THEOREM RedirectChainsEnd == Spec => []RedirectsEnd
<1>1. TypeOK /\ RequestsTraced => RedirectsEnd
  <2> SUFFICES ASSUME TypeOK, RequestsTraced, NEW t \in Tabs PROVE req[t].hops <= 2 \/ req[t].astray
    BY DEF RedirectsEnd
  <2>1. req[t].hops \in Nat /\ (req[t].hops <= Limit(req[t].path) \/ req[t].astray)
    BY TypeParts DEF RequestTypes, Requests, RequestsTraced, Traced
  <2> QED
    BY <2>1, LimitFacts
<1> QED
  BY <1>1, TracedInvariant, PTL
-----------------------------------------------------------------------------
(* What the requests do.                                                   *)

\* A step that answers the request of tab t and changes the tables does what
\* the operator asked for in t.
LEMMA AskedStep ==
    ASSUME TypeOK, RequestsTraced, Next, NEW t \in Tabs, req'[t] # req[t], store' # store
    PROVE  LET form == consent[t].form
           IN  /\ req[t].auth
               /\ \/ /\ form \in Removals
                     /\ store' = <<[status EXCEPT ![form.id] = "removed"], active>>
                  \/ /\ form \in Switches /\ consent[t].dialog
                     /\ store' = <<status,
                           [active EXCEPT ![form.id] = form.action = "activate"]>>
<1> DEFINE form == req[t].form
<1>0. /\ req \in [Tabs -> Requests] /\ req[t] \in Requests /\ form \in Forms
      /\ form \in RowForms => consent[t].form = form
      /\ req[t].post /\ req[t].path = "change-cron-job-status" =>
            form \in Switches /\ consent[t].dialog
  BY TypeParts DEF RequestTypes, Requests, RequestsTraced, Traced
<1>1. ~UNCHANGED <<status, active>> /\ ~UNCHANGED req
  BY DEF store
<1>2. \A s \in Tabs : ~Browse(s)
  BY <1>1, BrowseFrame
<1>3. ~Others
  BY <1>1, OthersFrame
<1>4. PICK s \in Tabs : Serve(s)
  BY <1>2, <1>3 DEF Next
<1>5. handleDashboardAction(s) \/ handleChangeCronJobStatus(s)
  BY <1>1, <1>4 DEF Serve, authMiddleware, ServeError, CountRows, SelectRows, handleCharts,
     handleIndex, handleLogin, handleLogout, store
<1>6. s = t
  <2>1. PICK r : req' = [req EXCEPT ![s] = r]
    BY <1>5 DEF handleDashboardAction, handleChangeCronJobStatus, Reply, PlainText, SeeOther
  <2> QED
    BY <1>0, <2>1
<1>7. CASE handleDashboardAction(t)
  <2>1. /\ req[t].auth /\ form.action = "remove"
        /\ status' = [status EXCEPT ![form.id] = "removed"] /\ active' = active
    BY <1>1, <1>7 DEF handleDashboardAction, Admitted
  <2>2. form \in Removals /\ consent[t].form = form
    BY <1>0, <2>1, FormFacts
  <2> QED
    BY <2>1, <2>2 DEF store
<1>8. CASE handleChangeCronJobStatus(t)
  <2>1. /\ req[t].auth /\ req[t].path = "change-cron-job-status" /\ status' = status
        /\ req[t].post
        /\ active' = [active EXCEPT ![form.id] = form.action = "activate"]
    BY <1>1, <1>8 DEF handleChangeCronJobStatus, Admitted
  <2>2. form \in Switches /\ consent[t].dialog /\ consent[t].form = form
    BY <1>0, <2>1, FormFacts
  <2> QED
    BY <2>1, <2>2 DEF store
<1> QED
  BY <1>5, <1>6, <1>7, <1>8

\* A request from a tab changes the tables only as the operator asked for it in
\* that tab, signed in: the row of the confirmed form or of the opened address is
\* removed, or the cron job of the confirmed form gets the value the button named,
\* and nothing else changes.
THEOREM AskedOnly == Spec => AppliesWhatWasAsked
<1>1. TypeOK /\ RequestsTraced /\ [Next]_vars =>
        [\A t \in Tabs :
           (req[t] # NoReq /\ req'[t] # req[t] /\ store' # store) =>
             LET form == consent[t].form
             IN  /\ req[t].auth
                 /\ \/ /\ form \in Removals
                       /\ store' = <<[status EXCEPT ![form.id] = "removed"], active>>
                    \/ /\ form \in Switches /\ consent[t].dialog
                       /\ store' = <<status,
                             [active EXCEPT ![form.id] = form.action = "activate"]>>]_vars
  BY AskedStep
<1> QED
  BY <1>1, TracedInvariant, PTL DEF Spec, AppliesWhatWasAsked
=============================================================================
