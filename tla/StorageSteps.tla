---------------------------- MODULE StorageSteps ----------------------------
(***************************************************************************)
(* How a storage backend carries out one method of the Storage interface   *)
(* (duplicacy_storage.go): a program of requests.  A step names a request  *)
(* to the server and, for every answer, what the method does with it:      *)
(*                                                                         *)
(*   "next"     go on with the next step (after the last one: return nil)  *)
(*   "skip"     leave out the next step ("skip2", "skip3": two, three)     *)
(*   "stay"     the next part of the same request (page, version)          *)
(*   "return"   return nil: the method reports success                     *)
(*   "absent"   return nil and "the file does not exist"                   *)
(*   "again"    the same request once more, at most .tries times, then     *)
(*              as .spent says                                             *)
(*   "reset"    the same request once more, counting from one again        *)
(*   "restart"  the whole program once more, at most .tries times          *)
(*   "login"    renew the credentials, then the same request once more     *)
(*   "fail"     return the error                                           *)
(*   "panic"    the program crashes                                        *)
(*   "hang"     the method never returns                                   *)
(*                                                                         *)
(* Paths, sizes, headers, JSON and rate limits are left out.  The storage  *)
(* holds one chunk, which is a live chunk under "chunk" and a fossil under *)
(* "fossil" (chunks/x.fsl, or fossils/x where a backend translates it).    *)
(***************************************************************************)
EXTENDS Integers, Sequences

\* What a request can be answered with: done, done with more to come, there is
\* no such file, there already is one, the parent directory is missing; and
\* what can go wrong: a server error, too many requests (429), no permission
\* or a rate limit (403), credentials expired (401), no answer because the
\* connection broke.
Answers == {"ok", "more", "notfound", "exists", "nodir"} \cup
           {"busy", "throttled", "denied", "expired", "drop"}

Errors == Answers \ {"ok", "more"}

\* An error is returned as it is.
NoError == [a \in Answers |-> CASE a = "ok"   -> "next"
                                [] a = "more" -> "stay"
                                [] OTHER      -> "fail"]

\* The answers in `set' lead to `then', the others as in `on'.
On(on, set, then) == [a \in Answers |-> IF a \in set THEN then ELSE on[a]]

Always(then) == [a \in Answers |-> then]

\* A request `verb' about the names a and b.
Step(verb, a, b, on, tries) ==
    [verb |-> verb, a |-> a, b |-> b, on |-> on, tries |-> tries, spent |-> Always("fail")]

\* A request whose errors are returned.
Ask(verb, a) == Step(verb, a, a, NoError, 0)

\* A request whose errors are ignored.
Ignoring(verb, a) == Step(verb, a, a, On(NoError, Errors, "next"), 0)

\* The same steps, with some answers treated differently.
Where(step, set, then) == [step EXCEPT !.on = On(@, set, then)]

\* (Mutant: the file is written in place.)
WriteInPlace(a, rename) == <<Ask("create", a), Ask("write", a)>>

\* A file written under a temporary name, renamed when it is complete; if the
\* rename fails although the file is there, another thread was faster.
WriteAndRename(a, rename) ==
    << Ask("create", "temp"),
       Ask("write", "temp"),
       Step(rename, "temp", a, On(On(NoError, Errors, "next"), {"ok"}, "return"), 0),
       Ask("stat", a),
       Ignoring("delete", "temp") >>
=============================================================================
