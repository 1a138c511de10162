----------------------------- MODULE Dashboard ------------------------------
(***************************************************************************)
(* The dashboard: the tabs of one operator's browser running scripts.js,   *)
(* the cookies the tabs share, and the HTTP handlers of the web server.    *)
(* The job servers and the other operators are the environment: they       *)
(* change the two tables under the pages the tabs already show.            *)
(*                                                                         *)
(* A request is sent with the cookies of that moment and served later.     *)
(* Serving it is one step, with the arrival of the answer, except that a   *)
(* listing takes the two statements of the store, COUNT and SELECT.  The   *)
(* answer may be lost after the handler has done its work.  The dashboard  *)
(* is only started with authentication enabled.                            *)
(***************************************************************************)
EXTENDS Integers, FiniteSets

CONSTANTS
    Tabs,        \* tabs of the browser
    Jobs,        \* ids of rows of enqueued_jobs, in the order of scheduled_at
    Crons,       \* ids of rows of cron_jobs
    PageSize,    \* rows on a page
    Filters,     \* statuses an operator selects in a list, or "all"
    TypedPages,  \* page parameters an operator may type into the address bar
    TypedForms,  \* forms an operator may put into an address as parameters
    MaxHops,     \* redirects a browser follows before it gives up
    MaxClicks,   \* bound: what the operator does, in all tabs together
    MaxEvents    \* bound: changes by others, store errors and lost answers

ASSUME IdAssumption ==
    /\ Jobs \subseteq Nat \ {0} /\ Crons \subseteq Nat \ {0}
    /\ Jobs \cap Crons = {}
    /\ IsFiniteSet(Jobs) /\ IsFiniteSet(Crons)
ASSUME PageAssumption ==
    /\ PageSize \in Nat \ {0}
    /\ TypedPages \subseteq [num : Int, clean : BOOLEAN]
    /\ MaxClicks \in Nat /\ MaxEvents \in Nat /\ MaxHops \in Nat
ASSUME FilterAssumption == Filters \subseteq {"all", "queued", "processing"}

VARIABLES
    status,   \* status of every row, "unborn" before and "removed" after its life;
              \* "stuck" is processing with a lock older than the lock TTL
    active,   \* is_active of the cron jobs
    jar,      \* the cookies auth, flash and warning of the browser
    title,    \* document.title of each tab, "" for an answer that is plain text
    url,      \* the query parameters in the address of each tab
    view,     \* what the list in the tab shows
    dialog,   \* the SweetAlert popup over the tab; a new one replaces the old one
    req,      \* the request the tab waits for
    consent,  \* history: what the operator asked for with the request, and whether
              \* a dialog was confirmed for it
    owed,     \* history: an action this browser sent to /enqueued was accepted and
              \* has not been announced yet
    clicks, events    \* bounds

store == <<status, active>>
document == <<title, url, view, dialog>>
vars == <<store, jar, document, req, consent, owed, clicks, events>>
-----------------------------------------------------------------------------
Lists == {"enqueued", "cron-jobs"}

\* "/" is the pattern that matches whatever no other pattern does.  Here "/"
\* stands for the root and unknown paths beside it, such as /foo, and "nested"
\* for the deeper ones, such as /foo/bar and /enqueued/.
Paths == Lists \cup {"/", "nested", "charts", "login", "Logout", "change-cron-job-status"}
Messages == {"removed", "activated", "deactivated"}

NoForm == [action |-> "none", id |-> 0]
SignIns == [action : {"right password", "wrong password"}, id : {0}]
Removals == [action : {"remove"}, id : Jobs]
Switches == [action : {"activate", "deactivate"}, id : Crons]
RowForms == Removals \cup Switches

\* Any action that /enqueued does not know.
OtherAction == [action |-> "other", id |-> 0]

ASSUME TypedFormsAssumption == TypedForms \subseteq RowForms \cup {OtherAction}

\* A page parameter: the number it begins with and whether nothing follows.
\* One that is missing, or begins with no number, reads like an unclean 0.
NoPage == [num |-> 0, clean |-> FALSE]
Page(n) == [num |-> n, clean |-> TRUE]
NoParams == [page |-> NoPage, status |-> "all"]

\* hops counts the redirects behind a request; astray (a history) tells that
\* the first of them was a "nested" path.
NoReq == [path |-> "none", post |-> FALSE, form |-> NoForm, params |-> NoParams,
          auth |-> FALSE, hops |-> 0, astray |-> FALSE, total |-> -1]
NoConsent == [form |-> NoForm, dialog |-> FALSE]
NoView == [forms |-> {}, num |-> 0, total |-> 0, prev |-> FALSE, next |-> FALSE]
NoDialog == [kind |-> "none", form |-> NoForm]
NoCookies == [auth |-> FALSE, flash |-> "none", warning |-> "none"]

\* The value scripts.js reads from document.cookie, "none" when there is none.
\* Escaping by the handler and unescaping here cancel out.
getCookie(cookies, name) == cookies[name]

Get(path, params) ==
    [NoReq EXCEPT !.path = path, !.params = params, !.auth = jar.auth,
                  !.astray = path = "nested"]
Post(path, form) ==
    [NoReq EXCEPT !.path = path, !.post = TRUE, !.form = form, !.auth = jar.auth]

Blank(t) ==
    /\ title' = [title EXCEPT ![t] = ""]
    /\ url' = [url EXCEPT ![t] = NoParams]
    /\ view' = [view EXCEPT ![t] = NoView]
    /\ dialog' = [dialog EXCEPT ![t] = NoDialog]

\* The tab leaves its document when it sends a request.
Send(t, r, asked) ==
    /\ req[t] = NoReq
    /\ req' = [req EXCEPT ![t] = r]
    /\ consent' = [consent EXCEPT ![t] = asked]
    /\ Blank(t)

\* document.title, from the last part of the path.
Title(path) == IF path = "/" THEN "Home" ELSE path
-----------------------------------------------------------------------------
(* The store, as the handlers see it.                                      *)

Exists(i) == status[i] \notin {"unborn", "removed"}

Filtered(i, filter) ==
    \/ filter = "all"
    \/ status[i] = filter
    \/ filter = "processing" /\ status[i] = "stuck"

\* FetchDueJobs hides the rows that are being processed; GetAll does not.
Listing(path, filter) ==
    IF path = "enqueued"
    THEN {j \in Jobs : Exists(j) /\ Filtered(j, filter) /\ status[j] # "processing"}
    ELSE {c \in Crons : Exists(c) /\ Filtered(c, filter)}

\* LIMIT PageSize OFFSET (n - 1) * PageSize.
RowsOfPage(path, filter, n) ==
    LET list == Listing(path, filter)
        rank(i) == Cardinality({k \in list : k <= i})
    IN  {i \in list : (n - 1) * PageSize < rank(i) /\ rank(i) <= n * PageSize}

\* The form the template writes into the row of a list.
FormOf(path, i) ==
    [id |-> i,
     action |-> IF path = "enqueued" THEN "remove"
                ELSE IF active[i] THEN "deactivate" ELSE "activate"]

getPageNumber(p) == IF p.clean /\ p.num >= 1 THEN p.num ELSE 1

TotalPages(total) == (total + PageSize - 1) \div PageSize

\* Slip: a page beyond the end has no link back.
Paginated_NoWayBack(path, filter, n, total) ==
    [forms |-> {FormOf(path, i) : i \in RowsOfPage(path, filter, n)},
     num |-> n, total |-> total,
     prev |-> n > 1 /\ n <= TotalPages(total), next |-> n < TotalPages(total)]

Paginated(path, filter, n, total) ==
    [forms |-> {FormOf(path, i) : i \in RowsOfPage(path, filter, n)},
     num |-> n, total |-> total,
     prev |-> n > 1, next |-> n < TotalPages(total)]
-----------------------------------------------------------------------------
(* The browser.                                                            *)

\* The document runs scripts.js, which leaves the given value in the cookie flash.
Show(t, path, params, v, flash) ==
    /\ title' = [title EXCEPT ![t] = Title(path)]
    /\ url' = [url EXCEPT ![t] = params]
    /\ view' = [view EXCEPT ![t] = v]
    /\ dialog' = [dialog EXCEPT ![t] =
            IF getCookie(jar, "warning") # "none" THEN [NoDialog EXCEPT !.kind = "warning"]
            ELSE IF getCookie(jar, "flash") # "none" THEN [NoDialog EXCEPT !.kind = "success"]
            ELSE NoDialog]
    /\ jar' = [jar EXCEPT !.flash = flash]
    /\ owed' = (owed /\ jar.flash # "removed")

\* Slip: the message is shown and its cookie stays.
Load_KeepsFlash(t, path, params, v) == Show(t, path, params, v, jar.flash)

\* The listeners of DOMContentLoaded that set the title and show the messages.
\* Swal.fire of a warning replaces the success popup opened just before it, and
\* both branches delete the cookie flash: a warning stays until it expires.
Load(t, path, params, v) == Show(t, path, params, v, "none")

\* An address typed, a link of the navigation bar followed, or a reload.
Visit(t, path, params) ==
    /\ Send(t, Get(path, params), NoConsent)
    /\ UNCHANGED <<store, jar, owed, events>>

\* The path of the handler of a form.
ActionPath(form) ==
    IF form.action \in {"remove", "other"} THEN "enqueued" ELSE "change-cron-job-status"

\* An address that carries a form as parameters: typed, from the history or a
\* bookmark.  No script and no dialog is involved.
GetForm(form) == [Get(ActionPath(form), NoParams) EXCEPT !.form = form]

VisitAction(t, form) ==
    /\ Send(t, GetForm(form), [form |-> form, dialog |-> FALSE])
    /\ UNCHANGED <<store, jar, owed, events>>

\* The select element over a list submits its form, which has no page.
SelectStatus(t, filter) ==
    /\ title[t] \in Lists /\ dialog[t] = NoDialog
    /\ Send(t, Get(title[t], [NoParams EXCEPT !.status = filter]), NoConsent)
    /\ UNCHANGED <<store, jar, owed, events>>

\* Slip: a missing page parameter counts as page 0.
goToPage_FromZero(p, action) == IF action = "next" THEN p.num + 1 ELSE p.num - 1

\* The page goToPage computes; below 1 it returns without navigating.
goToPage(p, action) ==
    LET page == IF p.num = 0 THEN 1 ELSE p.num
    IN  IF action = "next" THEN page + 1 ELSE page - 1

ClickPager(t, action) ==
    /\ title[t] \in Lists /\ dialog[t] = NoDialog
    /\ IF action = "next" THEN view[t].next ELSE view[t].prev
    /\ LET page == goToPage(url[t].page, action)
       IN  /\ page >= 1
           /\ Send(t, Get(title[t], [url[t] EXCEPT !.page = Page(page)]), NoConsent)
    /\ UNCHANGED <<store, jar, owed, events>>

\* The buttons that attachConfirmationToForms is called for: .delete-btn is in the
\* forms that remove a job, .change-status-btn in those that activate or deactivate
\* a cron job, and no template has a .run-btn.
Attached(form) == form.action \in {"remove", "activate", "deactivate"}

\* A click opens the dialog for the form around the button and submits nothing.
Click(t, form) ==
    /\ req[t] = NoReq /\ dialog[t] = NoDialog
    /\ form \in view[t].forms /\ Attached(form)
    /\ dialog' = [dialog EXCEPT ![t] = [kind |-> "confirm", form |-> form]]
    /\ UNCHANGED <<store, jar, title, url, view, req, consent, owed, events>>

Submit(t, confirmed) ==
    LET form == dialog[t].form
    IN  Send(t, Post(ActionPath(form), form),
             IF confirmed THEN [form |-> form, dialog |-> TRUE] ELSE NoConsent)

\* Slip: the form is submitted whichever way the dialog is closed.
Answer_Always(t, isConfirmed) ==
    /\ dialog[t].kind = "confirm"
    /\ Submit(t, isConfirmed)
    /\ UNCHANGED <<store, jar, owed, events>>

Answer(t, isConfirmed) ==
    /\ dialog[t].kind = "confirm"
    /\ IF isConfirmed
       THEN Submit(t, TRUE)
       ELSE /\ dialog' = [dialog EXCEPT ![t] = NoDialog]
            /\ UNCHANGED <<title, url, view, req, consent>>
    /\ UNCHANGED <<store, jar, owed, events>>

\* The popup of a message is closed.
Dismiss(t) ==
    /\ dialog[t].kind \in {"success", "warning"}
    /\ dialog' = [dialog EXCEPT ![t] = NoDialog]
    /\ UNCHANGED <<store, jar, title, url, view, req, consent, owed, events>>

SignIn(t, form) ==
    /\ title[t] = "login" /\ dialog[t] = NoDialog
    /\ Send(t, Post("login", form), NoConsent)
    /\ UNCHANGED <<store, jar, owed, events>>

\* A cookie reaches its MaxAge: five seconds for a message, an hour for auth.
Expire(name) ==
    /\ jar' = [jar EXCEPT ![name] = NoCookies[name]]
    /\ jar' # jar
    /\ UNCHANGED <<store, document, req, consent, owed, events>>
-----------------------------------------------------------------------------
(* The server.                                                             *)

Event == events < MaxEvents /\ events' = events + 1

\* http.Error, or no answer at all: a document without scripts.
PlainText(t) ==
    /\ req' = [req EXCEPT ![t] = NoReq]
    /\ UNCHANGED <<jar, document>>

\* http.Redirect with StatusSeeOther: the browser stores the cookies of the
\* answer and follows with a GET, until it has followed too many.
SeeOther(t, path, cookies) ==
    /\ req' = [req EXCEPT ![t] =
                IF req[t].hops < MaxHops
                THEN [NoReq EXCEPT !.path = path, !.auth = cookies.auth,
                                   !.hops = req[t].hops + 1, !.astray = req[t].astray]
                ELSE NoReq]
    /\ jar' = cookies
    /\ UNCHANGED document

\* The answer of a handler that has done its work arrives, or is lost.
Reply(t, path, cookies) ==
    \/ SeeOther(t, path, cookies) /\ UNCHANGED events
    \/ PlainText(t) /\ Event

Page200(t, v) ==
    /\ req' = [req EXCEPT ![t] = NoReq]
    /\ Load(t, req[t].path, req[t].params, v)

\* Slip: the middleware sends everyone to the start page.
authMiddleware_ToIndex(t) ==
    /\ req[t].path \notin {"none", "login", "Logout"}
    /\ ~req[t].auth
    /\ SeeOther(t, "/", jar)
    /\ consent' = [consent EXCEPT ![t] = NoConsent]
    /\ UNCHANGED <<store, owed, events>>

\* The middleware turns away a request that carries no valid token.
authMiddleware(t) ==
    /\ req[t].path \notin {"none", "login", "Logout"}
    /\ ~req[t].auth
    /\ SeeOther(t, "login", jar)
    /\ consent' = [consent EXCEPT ![t] = NoConsent]
    /\ UNCHANGED <<store, owed, events>>

Admitted(t, path) == req[t].path = path /\ req[t].auth

\* The store fails or the request does not reach the server.
ServeError(t) ==
    /\ req[t] # NoReq
    /\ PlainText(t) /\ Event
    /\ consent' = [consent EXCEPT ![t] = NoConsent]
    /\ UNCHANGED <<store, owed>>

\* A list: COUNT, then SELECT, then the template.  The handler of /enqueued does
\* this after a removal too, for a body that the redirect makes irrelevant.
CountRows(t) ==
    /\ req[t].path \in Lists /\ req[t].auth /\ req[t].form = NoForm
    /\ req[t].total = -1
    /\ req' = [req EXCEPT ![t].total =
                Cardinality(Listing(req[t].path, req[t].params.status))]
    /\ UNCHANGED <<store, jar, document, consent, owed, events>>

\* Slip: the list is rendered before its rows were counted.
SelectRows_Uncounted(t) ==
    /\ req[t].path \in Lists /\ req[t].auth /\ req[t].form = NoForm
    /\ Page200(t, Paginated(req[t].path, req[t].params.status,
                            getPageNumber(req[t].params.page), req[t].total))
    /\ UNCHANGED <<store, consent, events>>

SelectRows(t) ==
    /\ req[t].path \in Lists /\ req[t].total >= 0
    /\ Page200(t, Paginated(req[t].path, req[t].params.status,
                            getPageNumber(req[t].params.page), req[t].total))
    /\ UNCHANGED <<store, consent, events>>

\* /enqueued with an action, in the body of a POST or in the address of a GET:
\* r.FormValue reads both, and the method is not looked at.  RemoveByID fails
\* when no row has the id, and the handler then answers 400.  An action that is
\* not known does nothing and is announced as a removal.
handleDashboardAction(t) ==
    /\ Admitted(t, "enqueued") /\ req[t].form # NoForm
    /\ LET form == req[t].form
           done == [jar EXCEPT !.flash = "removed"]
       IN  \/ /\ form.action = "remove" /\ Exists(form.id)
              /\ status' = [status EXCEPT ![form.id] = "removed"]
              /\ owed' = TRUE
              /\ Reply(t, "enqueued", done)
           \/ /\ form.action = "remove" /\ ~Exists(form.id)
              /\ PlainText(t)
              /\ UNCHANGED <<status, owed, events>>
           \/ /\ form.action # "remove"
              /\ owed' = TRUE
              /\ Reply(t, "enqueued", done)
              /\ UNCHANGED status
    /\ consent' = [consent EXCEPT ![t] = NoConsent]
    /\ UNCHANGED active

\* /change-cron-job-status: a POST, or the answer is 405.  The error of Activate
\* and DeActivate is dropped: the message of success is sent when the UPDATE
\* failed, too.
handleChangeCronJobStatus(t) ==
    /\ Admitted(t, "change-cron-job-status")
    /\ LET form == req[t].form
           message == IF form.action = "activate" THEN "activated" ELSE "deactivated"
           cookies == [jar EXCEPT !.flash = message]
       IN  \/ /\ ~req[t].post
              /\ PlainText(t)
              /\ UNCHANGED <<active, events>>
           \/ /\ req[t].post
              /\ active' = [active EXCEPT ![form.id] = form.action = "activate"]
              /\ Reply(t, "cron-jobs", cookies)
           \/ /\ req[t].post
              /\ Event /\ SeeOther(t, "cron-jobs", cookies)
              /\ UNCHANGED active
    /\ consent' = [consent EXCEPT ![t] = NoConsent]
    /\ UNCHANGED <<status, owed>>

handleCharts(t) ==
    /\ Admitted(t, "charts")
    /\ Page200(t, NoView)
    /\ UNCHANGED <<store, consent, events>>

\* The redirect to "charts" is relative to the directory of the request: from
\* /foo it leads to /charts, from /foo/bar to /foo/charts, which is an unknown
\* path of the same directory and comes back here.
handleIndex(t) ==
    /\ \/ Admitted(t, "/") /\ SeeOther(t, "charts", jar)
       \/ Admitted(t, "nested") /\ SeeOther(t, "nested", jar)
    /\ UNCHANGED <<store, consent, owed, events>>

handleLogin(t) ==
    /\ req[t].path = "login"
    /\ \/ /\ req[t].form = NoForm
          /\ Page200(t, NoView)
       \/ /\ req[t].form.action = "right password"
          /\ SeeOther(t, "charts", [jar EXCEPT !.auth = TRUE])
          /\ owed' = owed
       \/ /\ req[t].form.action = "wrong password"
          /\ SeeOther(t, "login", [jar EXCEPT !.warning = "invalid"])
          /\ owed' = owed
    /\ UNCHANGED <<store, consent, events>>

handleLogout(t) ==
    /\ req[t].path = "Logout"
    /\ SeeOther(t, "login", [jar EXCEPT !.auth = FALSE])
    /\ UNCHANGED <<store, consent, owed, events>>
-----------------------------------------------------------------------------
(* Everybody else: new jobs, job servers, other operators.                 *)

OthersChangeRow(i, s) ==
    /\ Event
    /\ \/ status[i] = "unborn" /\ s = "queued"
       \/ Exists(i) /\ s \in {"queued", "processing", "stuck"} /\ s # status[i]
       \/ Exists(i) /\ i \in Jobs /\ s = "removed"
    /\ status' = [status EXCEPT ![i] = s]
    /\ UNCHANGED <<active, jar, document, req, consent, owed>>

OthersChangeActive(c) ==
    /\ Event
    /\ active' = [active EXCEPT ![c] = ~@]
    /\ UNCHANGED <<status, jar, document, req, consent, owed>>
-----------------------------------------------------------------------------
Init ==
    /\ \E n \in Jobs \cup {0} : status = [i \in Jobs \cup Crons |->
            IF i \in Jobs /\ i > n THEN "unborn" ELSE "queued"]
    /\ active = [c \in Crons |-> TRUE]
    /\ \E signedIn \in BOOLEAN : jar = [NoCookies EXCEPT !.auth = signedIn]
    /\ title = [t \in Tabs |-> ""]
    /\ url = [t \in Tabs |-> NoParams]
    /\ view = [t \in Tabs |-> NoView]
    /\ dialog = [t \in Tabs |-> NoDialog]
    /\ req = [t \in Tabs |-> NoReq]
    /\ consent = [t \in Tabs |-> NoConsent]
    /\ owed = FALSE
    /\ clicks = 0 /\ events = 0

Browse(t) ==
    /\ clicks < MaxClicks /\ clicks' = clicks + 1
    /\ \/ \E path \in Paths : Visit(t, path, NoParams)
       \/ \E form \in TypedForms : VisitAction(t, form)
       \/ \E path \in Lists, p \in TypedPages : Visit(t, path, [NoParams EXCEPT !.page = p])
       \/ title[t] \in Lists /\ Visit(t, title[t], url[t])
       \/ \E filter \in Filters : SelectStatus(t, filter)
       \/ \E action \in {"next", "prev"} : ClickPager(t, action)
       \/ \E form \in view[t].forms : Click(t, form)
       \/ \E isConfirmed \in BOOLEAN : Answer(t, isConfirmed)
       \/ Dismiss(t)
       \/ \E form \in SignIns : SignIn(t, form)

Serve(t) ==
    \/ authMiddleware(t) \/ ServeError(t)
    \/ CountRows(t) \/ SelectRows(t)
    \/ handleDashboardAction(t) \/ handleChangeCronJobStatus(t)
    \/ handleCharts(t) \/ handleIndex(t)
    \/ handleLogin(t) \/ handleLogout(t)

Others ==
    \/ \E i \in Jobs \cup Crons, s \in {"queued", "processing", "stuck", "removed"} :
            OthersChangeRow(i, s)
    \/ \E c \in Crons : OthersChangeActive(c)
    \/ \E name \in {"auth", "flash", "warning"} : Expire(name)

Next ==
    \/ \E t \in Tabs : Browse(t)
    \/ (Others \/ \E t \in Tabs : Serve(t)) /\ UNCHANGED clicks

Spec == Init /\ [][Next]_vars
-----------------------------------------------------------------------------
Forms == RowForms \cup SignIns \cup {NoForm, OtherAction}
Params == [page : [num : Int, clean : BOOLEAN], status : Filters \cup {"all"}]

\* The types of the tables, the cookies and the state of every tab.
TypeOK ==
    /\ status \in [Jobs \cup Crons ->
            {"unborn", "queued", "processing", "stuck", "removed"}]
    /\ active \in [Crons -> BOOLEAN]
    /\ jar \in [auth : BOOLEAN, flash : Messages \cup {"none"},
                warning : {"invalid", "none"}]
    /\ title \in [Tabs -> {"", "charts", "login"} \cup Lists]
    /\ url \in [Tabs -> Params]
    /\ view \in [Tabs -> [forms : SUBSET RowForms, num : Int, total : Nat,
                          prev : BOOLEAN, next : BOOLEAN]]
    /\ dialog \in [Tabs -> [kind : {"confirm"}, form : RowForms] \cup
                           [kind : {"none", "success", "warning"}, form : {NoForm}]]
    /\ req \in [Tabs -> [path : Paths \cup {"none"}, post : BOOLEAN, form : Forms,
                         params : Params, auth : BOOLEAN, hops : 0..MaxHops,
                         astray : BOOLEAN, total : Nat \cup {-1}]]
    /\ consent \in [Tabs -> [form : RowForms \cup {NoForm, OtherAction}, dialog : BOOLEAN]]
    /\ owed \in BOOLEAN
    /\ clicks \in 0..MaxClicks /\ events \in 0..MaxEvents

\* What the tab's request does to the tables is what the operator asked for in
\* that tab, once, and only for a request sent while signed in: a removal deletes
\* exactly the row of the form that was confirmed, or of the address that was
\* opened; a change of status, which no address can make, sets exactly that cron
\* job to the value the confirmed button named, however stale the page was.
AppliesWhatWasAsked ==
    [][\A t \in Tabs :
        (req[t] # NoReq /\ req'[t] # req[t] /\ store' # store) =>
            LET form == consent[t].form
            IN  /\ req[t].auth
                /\ \/ /\ form \in Removals
                      /\ store' = <<[status EXCEPT ![form.id] = "removed"], active>>
                   \/ /\ form \in Switches /\ consent[t].dialog
                      /\ store' = <<status,
                            [active EXCEPT ![form.id] = form.action = "activate"]>>]_vars

\* The cookie that announces a removal stands for an action that /enqueued accepted
\* from this browser and that was not announced yet, a removal or one it does not
\* know: no success for a row that somebody else had removed, and none twice, with
\* two tabs, lost answers and expired cookies.
SuccessIsReal == jar.flash = "removed" => owed

\* The links of a list lead to the pages before and after the one on display, as
\* the server will count it, unless the operator typed a number below 0 or with
\* something after it: the page scripts.js reads from the address is then not
\* the page the server showed.
PagerInStep ==
    \A t \in Tabs : LET p == url[t].page IN
        (title[t] \in Lists /\ (p = NoPage \/ (p.clean /\ p.num >= 0))) =>
            /\ view[t].next =>
                getPageNumber(Page(goToPage(p, "next"))) = view[t].num + 1
            /\ view[t].prev =>
                /\ goToPage(p, "prev") >= 1
                /\ getPageNumber(Page(goToPage(p, "prev"))) = view[t].num - 1

\* No list is a dead end: without a link to a next page no counted row lies
\* beyond the page, and beyond the last page there is a link back.
NoDeadEnd ==
    \A t \in Tabs : title[t] \in Lists =>
        /\ ~view[t].next => view[t].total <= view[t].num * PageSize
        /\ view[t].num # 1 => view[t].prev

\* A chain of redirects ends after at most two of them, also when the session
\* ends in the middle of the chain, unless it began below an unknown directory:
\* that one ends only when the browser gives up.
RedirectsEnd == \A t \in Tabs : req[t].hops <= 2 \/ req[t].astray
=============================================================================
