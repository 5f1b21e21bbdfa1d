----------------------------- MODULE MCHttpConn -----------------------------
(* Model checking of HttpConn: a handful of pages and requests.  No page of    *)
(* root/ is empty or unreadable; those here stand for what may be put there.   *)
EXTENDS HttpConn

MCStat ==
  [f \in {"/judge.html", "/welcome.html", "/logError.html",
          "/secret", "/dir", "/empty.html", "/picture.html"} |->
     CASE f = "/secret"           -> [mode |-> "unreadable", size |-> 1]
       [] f = "/dir"              -> [mode |-> "directory", size |-> 1]
       [] f = "/empty.html"       -> [mode |-> "file", size |-> 0]
       [] f = "/picture.html"     -> [mode |-> "file", size |-> 2]
       [] OTHER                   -> [mode |-> "file", size |-> 1]]

MCFiles == DOMAIN MCStat

MCRequest(method, page, keep, length, bareLF) ==
  [method |-> method, page |-> page, keep |-> keep, length |-> length, bareLF |-> bareLF]

MCRequests ==
  {MCRequest("GET", "/", " keep-alive", 0, FALSE),
   MCRequest("GET", "/", "none", 0, TRUE),
   MCRequest("GET", "/5", "keep-alive", 0, FALSE),
   MCRequest("GET", "/2", "none", 0, FALSE),
   MCRequest("POST", "/2", "keep-alive", 2, FALSE),
   MCRequest("POST", "/", "keep-alive", 3, FALSE),
   MCRequest("GET", "/empty.html", "none", 0, FALSE),
   MCRequest("GET", "/none", "keep-alive", 0, FALSE),
   MCRequest("GET", "/secret", "none", 0, FALSE),
   MCRequest("GET", "/dir", "none", 0, FALSE),
   MCRequest("HEAD", "/", "none", 0, FALSE)}
=============================================================================
