----------------------------- MODULE PageService -----------------------------
(* From a request to its response: PageService::Resolve, which a logic thread  *)
(* runs, and HttpHandler::BuildResponseData, which the main thread runs when   *)
(* it has collected the result.  Between the two, and between the system calls *)
(* of the second, whoever maintains the site may change its files.             *)
(* Contents are counted in units; a page built in memory is one unit long.     *)
EXTENDS Integers, TLC, FormCodec

CONSTANTS
  Site,        \* the paths there are when the request comes, and what is there
  OtherPaths,  \* paths that requests may name besides
  Sizes,       \* sizes a file may get
  MaxChanges,  \* how often the site may change during the request
  Texts,       \* what may be typed into a field of the login form
  None

\* What a path leads to.  Directories, too, have a size, which is not 0.
Inodes == [kind : {"file"}, size : Sizes, readable : BOOLEAN]
            \cup [kind : {"directory"}, size : Sizes \ {0}, readable : BOOLEAN]

ASSUME SiteAssumption ==
  /\ \A p \in DOMAIN Site : Site[p] \in Inodes
  /\ Sizes \subseteq Nat
  /\ MaxChanges \in Nat
  /\ None \notin DOMAIN Site
  /\ Texts \subseteq Seq(Characters)

\* The path, and whether one or two question marks with a query follow it.
Urls == (DOMAIN Site \cup OtherPaths) \X (0..2)

NotTyped == [user |-> <<>>, password |-> <<>>]

\* Form: the request's Content-Type is absent, that of a form, or another.  What a
\* login form was filled in with makes the request's body.
Requests == [method : {"GET", "POST", "PUT"}, url : Urls, form : {"absent"},
             typed : {NotTyped}]
            \cup [method : {"POST"}, url : {<<"/login", 0>>},
                  form : {"absent", "form", "other"},
                  typed : [user : Texts, password : Texts]]

\* The paths with a page of their own, whether its file exists or not.
ErrorStatus == "/403.html" :> 403 @@ "/404.html" :> 404
                 @@ "/500.html" :> 500 @@ "/504.html" :> 504

LoginStatus == [Success |-> 200, Created |-> 200, WrongPassword |-> 401,
                InvalidInput |-> 400, DatabaseError |-> 500]

VARIABLES
  site,      \* what the paths lead to now
  opened,    \* what filefd is open on, or None; a path may lead elsewhere by now
  follows,   \* the path that still leads to that, or None
  changes,   \* how often the site has changed
  pc,        \* where the request is
  request,
  asked,     \* what LoginOrCreate was called with, or None
  page,      \* PageResult: a status, and a path, or None for a page in memory, and
             \* the user that a page in memory names
  size,      \* what stat said in BuildResponseData
  offset,    \* how much of the body has been read
  response   \* status, Content-Length, how much of the body is content, and the
             \* user it names

siteVars == <<site, follows, changes>>
vars == <<siteVars, opened, pc, request, asked, page, size, offset, response>>

NoResponse == [status |-> 0, length |-> 0, content |-> 0, user |-> <<>>]
Simple(status) == [status |-> status, length |-> 1, content |-> 1, user |-> <<>>]

Init ==
  /\ site = Site
  /\ opened = None
  /\ follows = None
  /\ changes = 0
  /\ pc = "resolve"
  /\ request \in Requests
  /\ asked = None
  /\ page = [status |-> 0, file |-> None, user |-> <<>>]
  /\ size = 0
  /\ offset = 0
  /\ response = NoResponse

------------------------------------------------------------------------------
(* PageService::Resolve.                                                       *)

\* The last question mark of the URL, and what follows, is cut off.
Cut(url) == IF url[2] <= 1 THEN url[1] ELSE None
Target == Cut(request.url)

\* The page is found and the result queued for the main thread.
Resolved(result) ==
  /\ page' = result
  /\ pc' = "stat"
  /\ UNCHANGED <<siteVars, opened, request, size, offset, response>>

\* BuildErrorPageResult, and the file of a path.
FilePage(status, file) == [status |-> status, file |-> file, user |-> <<>>]

InlinePage(status, user) == [status |-> status, file |-> None, user |-> user]

\* BuildLoginResultPage: of what the page says, the user's name.
LoginPage(status, user) == InlinePage(status, HtmlEscape(user))

\* The name of one who has not logged in.
Guest == <<"guest">>

RefuseMethod ==
  /\ pc = "resolve"
  /\ request.method \notin {"GET", "POST"}
  /\ Resolved(LoginPage(405, Guest))
  /\ UNCHANGED asked

\* POST /login with a Content-Type of another kind than that of a form.
RefuseForm ==
  /\ pc = "resolve"
  /\ request.method = "POST" /\ Target = "/login"
  /\ request.form = "other"
  /\ Resolved(LoginPage(400, Guest))
  /\ UNCHANGED asked

\* POST /login: the form's fields go to the account store, which may answer
\* anything but that empty ones are refused (LoginService).
PostLogin ==
  LET body == IF request.typed = NotTyped THEN <<>> ELSE Submitted(request.typed)
      login == [user |-> Field(body, "username"), password |-> Field(body, "password")]
  IN /\ pc = "resolve"
     /\ request.method = "POST" /\ Target = "/login"
     /\ request.form # "other"
     /\ asked' = login
     /\ \E outcome \in DOMAIN LoginStatus :
          /\ <<>> \in {login.user, login.password} => outcome = "InvalidInput"
          /\ Resolved(LoginPage(LoginStatus[outcome], login.user))

PostElsewhere ==
  /\ pc = "resolve"
  /\ request.method = "POST" /\ Target # "/login"
  /\ Resolved(LoginPage(404, Guest))
  /\ UNCHANGED asked

\* The file that a GET asks for.
File == IF Target \in {"/", "/login"} THEN "/index.html" ELSE Target

GetErrorPage ==
  /\ pc = "resolve"
  /\ request.method = "GET"
  /\ File \in DOMAIN ErrorStatus
  /\ Resolved(FilePage(ErrorStatus[File], File))
  /\ UNCHANGED asked

GetFile ==
  /\ pc = "resolve"
  /\ request.method = "GET"
  /\ File \notin DOMAIN ErrorStatus
  /\ Resolved(IF File \notin DOMAIN site THEN FilePage(404, "/404.html")
              ELSE IF site[File].kind # "file" THEN FilePage(403, "/403.html")
              ELSE FilePage(200, File))
  /\ UNCHANGED asked

------------------------------------------------------------------------------
(* HttpHandler::BuildResponseData.                                             *)

\* Mutant: a return without close(filefd).
LeaveOpen == UNCHANGED <<opened, follows>>

CloseFile == opened' = None /\ follows' = None

Respond(r) ==
  /\ response' = r
  /\ pc' = "done"
  /\ UNCHANGED <<site, changes, request, asked, page, size, offset>>

BuildInline ==
  /\ pc = "stat"
  /\ page.file = None
  /\ Respond([Simple(page.status) EXCEPT !.user = page.user])
  /\ UNCHANGED <<opened, follows>>

Stat ==
  /\ pc = "stat"
  /\ page.file \in DOMAIN site
  /\ size' = site[page.file].size
  /\ pc' = "open"
  /\ UNCHANGED <<siteVars, opened, request, asked, page, offset, response>>

StatFails ==
  /\ pc = "stat"
  /\ page.file # None /\ page.file \notin DOMAIN site
  /\ Respond(Simple(404))
  /\ UNCHANGED <<opened, follows>>

Open ==
  /\ pc = "open"
  /\ page.file \in DOMAIN site
  /\ site[page.file].readable
  /\ opened' = site[page.file]
  /\ follows' = page.file
  /\ pc' = "read"
  /\ UNCHANGED <<site, changes, request, asked, page, size, offset, response>>

OpenFails ==
  /\ pc = "open"
  /\ page.file \in DOMAIN site => ~site[page.file].readable
  /\ Respond(Simple(500))
  /\ UNCHANGED <<opened, follows>>

Read ==
  /\ pc = "read"
  /\ offset < size
  /\ opened.kind = "file"
  /\ offset' \in (offset + 1)..size
  /\ offset' <= opened.size
  /\ UNCHANGED <<siteVars, opened, pc, request, asked, page, size, response>>

\* An error of the device, or a directory.  (EINTR is tried again.)
ReadFails ==
  /\ pc = "read"
  /\ offset < size
  /\ CloseFile
  /\ Respond(Simple(500))

\* Mutant: what has been read is taken for the whole.
AnyAmount == TRUE

\* As much was read as stat had promised.
HasWhole == offset = size

\* The end of the loop: all is read, or the file ended early.
ReadEnds ==
  /\ pc = "read"
  /\ \/ offset = size
     \/ opened.kind = "file" /\ opened.size <= offset
  /\ CloseFile
  /\ Respond(IF HasWhole
             THEN [status |-> page.status, length |-> size, content |-> offset,
                   user |-> <<>>]
             ELSE Simple(500))

------------------------------------------------------------------------------
(* The site changes: a path is made to lead to something new, or to nothing,   *)
(* or a file is written over.  Only the answer to a GET looks at it.           *)

SiteChanges ==
  /\ changes < MaxChanges
  /\ pc # "done" /\ request.method = "GET"
  /\ changes' = changes + 1
  /\ UNCHANGED <<pc, request, asked, page, size, offset, response>>

Replace(p) ==
  /\ SiteChanges
  /\ \E i \in Inodes : site' = (p :> i) @@ site
  /\ follows' = IF follows = p THEN None ELSE follows
  /\ UNCHANGED opened

Remove(p) ==
  /\ SiteChanges
  /\ site' = [q \in DOMAIN site \ {p} |-> site[q]]
  /\ follows' = IF follows = p THEN None ELSE follows
  /\ UNCHANGED opened

Rewrite(p) ==
  /\ SiteChanges
  /\ p \in DOMAIN site /\ site[p].kind = "file"
  /\ \E n \in Sizes :
       /\ site' = [site EXCEPT ![p].size = n]
       /\ opened' = IF follows = p THEN [opened EXCEPT !.size = n] ELSE opened
  /\ UNCHANGED follows

------------------------------------------------------------------------------
Resolve == \/ RefuseMethod \/ RefuseForm \/ PostLogin \/ PostElsewhere
           \/ GetErrorPage \/ GetFile

Build == \/ BuildInline \/ Stat \/ StatFails \/ Open \/ OpenFails
         \/ Read \/ ReadFails \/ ReadEnds

Next == \/ Resolve
        \/ Build
        \/ \E p \in DOMAIN Site : Replace(p) \/ Remove(p) \/ Rewrite(p)

Spec == Init /\ [][Next]_vars

------------------------------------------------------------------------------
\* However the site changes meanwhile, a response is as long as its
\* Content-Length says, and all of its body is content: a file that shrank is not
\* filled up with what was in the buffer, nor is the response cut short.
ResponseIsWhole ==
  pc = "done" => response.content = response.length

\* What is typed into the login form is what the account store is asked about, and
\* the page that answers shows the name as it was typed, whatever characters there
\* are in it that mean something to a form or to a page.
TypedIsKept ==
  pc = "done" /\ asked # None =>
    /\ asked = request.typed
    /\ Displayed(response.user) = request.typed.user

\* Each way out of BuildResponseData has closed the file: the number goes back to
\* the table that clients and the database take theirs from.
NoFileLeft == pc = "done" => opened = None
==============================================================================
