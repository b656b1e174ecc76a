------------------------------- MODULE GPath -------------------------------
(***************************************************************************)
(* Paths: making one absolute and clean, resolving its symbolic links      *)
(* component by component, and creating the missing directories on the     *)
(* way to a file.  A path to be cleaned is a sequence of characters, "a"   *)
(* standing for any other than "/" and "."; one to be resolved is a        *)
(* sequence of components.                                                 *)
(***************************************************************************)
EXTENDS Integers, Sequences, FiniteSets, SequencesExt

CONSTANTS
    MaxPathChars,   \* bound of the model: characters of a path to clean
    MaxComps,       \* bound of the model: components of a path to resolve
    MAX_LINKS,      \* links followed before ELOOP
    PathProcs       \* processes that create the same directories

VARIABLES gp        \* the call in progress: input, where it is, result
gpVars == <<gp>>

-----------------------------------------------------------------------------
(* Cleaning.  clean is the automaton of the source: out is what precedes   *)
(* p0, kept; every "remove" takes characters off its end.                  *)
DropLast(s, n) == SubSeq(s, 1, Len(s) - n)
lastSlash(s, from) ==
    LET at == {i \in 1 .. from : s[i] = "/"} IN IF at = {} THEN 0 ELSE CHOOSE i \in at : \A j \in at : j <= i

(* "../": back to the slash before the last component, or to the first     *)
(* character; s ends with "/..".                                           *)
cleanDotDot(s) ==
    LET at == lastSlash(s, Len(s) - 3) IN SubSeq(s, 1, IF at = 0 THEN 1 ELSE at)

cleanStep(c, ch) ==
    CASE c.state = 0 -> [out |-> Append(c.out, ch), state |-> IF ch = "/" THEN 1 ELSE 0]
      [] c.state = 1 /\ ch = "/" -> c
      [] c.state = 1 /\ ch # "/" -> [out |-> Append(c.out, ch), state |-> IF ch = "." THEN 2 ELSE 0]
      [] c.state = 2 /\ ch = "/" -> [out |-> DropLast(c.out, 1), state |-> 1]
      [] c.state = 2 /\ ch # "/" -> [out |-> Append(c.out, ch), state |-> IF ch = "." THEN 3 ELSE 0]
      [] c.state = 3 /\ ch = "/" -> [out |-> cleanDotDot(c.out), state |-> 1]
      [] c.state = 3 /\ ch # "/" -> [out |-> Append(c.out, ch), state |-> 0]

clean(s) == FoldLeft(cleanStep, [out |-> << >>, state |-> IF Head(s) = "/" THEN 0 ELSE 1], s).out

concat(root, s) ==
    LET tail == IF s # << >> /\ Head(s) = "/" THEN Tail(s) ELSE s
    IN  (IF Last(root) = "/" THEN root ELSE Append(root, "/")) \o tail

getAbsolutePath(root, s) ==
    LET whole == IF s = << >> \/ Head(s) # "/" THEN concat(root, s) ELSE s
    IN  clean(IF Last(whole) = "/" THEN whole ELSE Append(whole, "/"))

(* Of a file: no slash at the end. *)
getAbsoluteFile(root, s) == clean(IF s = << >> \/ Head(s) # "/" THEN concat(root, s) ELSE s)

(* What a clean path is: the components, without empty ones and ".", each  *)
(* ".." taking the one before it.                                          *)
SplitStep(a, ch) == IF ch = "/" THEN Append(a, << >>) ELSE [a EXCEPT ![Len(a)] = Append(@, ch)]
Components(s) == FoldLeft(SplitStep, <<<< >>>>, s)
NormStep(a, c) ==
    CASE c \in {<< >>, <<".">>} -> a
      [] c = <<".", ".">> -> IF a = << >> THEN a ELSE Front(a)
      [] OTHER -> Append(a, c)
Normal(s) == FoldLeft(NormStep, << >>, Components(s))
Joined(cs) == FoldLeft(LAMBDA a, c : a \o c \o <<"/">>, <<"/">>, cs)

(* MaxPathChars characters, and the roots a relative path is put under. *)
PathChars == UNION {[1 .. n -> {"/", ".", "a"}] : n \in 0 .. MaxPathChars}
Roots == {<<"/">>, <<"/", "a">>, <<"/", "a", "a", "/">>}

StartClean == \E r \in Roots, s \in PathChars : gp = [call |-> "clean", root |-> r, path |-> s, out |-> << >>, file |-> << >>]
Clean ==
    /\ gp.call = "clean"
    /\ gp' = [gp EXCEPT !.call = "cleaned", !.out = getAbsolutePath(gp.root, gp.path),
                         !.file = getAbsoluteFile(gp.root, Append(gp.path, "a"))]

-----------------------------------------------------------------------------
(* Resolving.  A file system of two names; only a may be a directory with  *)
(* something in it.                                                        *)
Link(abs, to) == [kind |-> "link", abs |-> abs, to |-> to]
Plain(k) == [kind |-> k, abs |-> FALSE, to |-> << >>]
Missing == Plain("missing")
Links == {Link(TRUE, <<"b">>), Link(FALSE, <<"b">>), Link(FALSE, <<"..", "b">>), Link(TRUE, <<"a", "b">>)}
Kinds == Links \cup {Plain("file"), Plain("dir"), Missing}
Places == {<<"a">>, <<"b">>, <<"a", "a">>, <<"a", "b">>}
FileSystems ==
    {fs \in [Places -> Kinds] : \A n \in {"a", "b"} : fs[<<"a">>].kind # "dir" => fs[<<"a", n>>] = Missing}

(* Owners: root owns nothing but what is in a directory a. *)
Owner(p) == IF Len(p) = 2 THEN 0 ELSE IF p = <<"a">> THEN 1 ELSE 2

At(fs, p) == IF p = << >> THEN Plain("dir") ELSE IF p \in Places THEN fs[p] ELSE Missing

(* The kernel's walk, with fuel for the links; fails with <<"?">>. *)
Walk(fs, path, fuel, followLast) ==
    LET f[n \in 0 .. 3 * (fuel + MaxComps + 2)] ==
            IF n = 0 THEN [at |-> << >>, rest |-> path, fuel |-> fuel, bad |-> FALSE]
            ELSE LET w == f[n - 1]
                     c == Head(w.rest)
                     p == Append(w.at, c)
                 IN  CASE w.rest = << >> \/ w.bad -> w
                       [] w.rest # << >> /\ ~w.bad /\ At(fs, w.at).kind # "dir" -> [w EXCEPT !.bad = TRUE]
                       [] w.rest # << >> /\ ~w.bad /\ At(fs, w.at).kind = "dir" ->
                             CASE c = ".." -> [w EXCEPT !.rest = Tail(@), !.at = IF @ = << >> THEN @ ELSE Front(@)]
                               [] c # ".." /\ At(fs, p).kind = "missing" -> [w EXCEPT !.bad = TRUE]
                               [] c # ".." /\ At(fs, p).kind = "link" /\ (followLast \/ Len(w.rest) > 1) ->
                                     [at |-> IF At(fs, p).abs THEN << >> ELSE w.at,
                                      rest |-> At(fs, p).to \o Tail(w.rest),
                                      fuel |-> w.fuel - 1, bad |-> w.fuel = 0]
                               [] OTHER -> [w EXCEPT !.at = p, !.rest = Tail(@)]
    IN  IF f[3 * (fuel + MaxComps + 2)].bad THEN <<"?">> ELSE f[3 * (fuel + MaxComps + 2)].at

StartCheck ==
    \E fs \in FileSystems, n \in 1 .. MaxComps, mode \in 0 .. 2 : \E s \in [1 .. n -> {"a", "b", ".."}] :
        gp = [call |-> "check", fs |-> fs, path |-> s, mode |-> mode, done |-> << >>, rest |-> s,
              links |-> 0, res |-> "none", bad |-> FALSE]

(* A "..": the last resolved component goes. *)
skipDotDotKeep(g) == [g EXCEPT !.rest = Tail(@)]
skipDotDot(g) == [g EXCEPT !.rest = Tail(@), !.done = IF @ = << >> THEN @ ELSE Front(@)]

(* readlink says the component is no link, or is not there. *)
noLink(g, p) == [g EXCEPT !.done = p, !.rest = Tail(@)]
notThere(g, p) == [g EXCEPT !.done = p, !.rest = << >>, !.res = "partial"]

(* A link: its text takes the component's place.  With getRealPath 2 the   *)
(* link's owner, unless root, must own what the link names.                *)
ownersAgree(g, p, l) ==
    LET to == Walk(g.fs, (IF l.abs THEN << >> ELSE g.done) \o l.to, MAX_LINKS, FALSE)
    IN  Owner(p) = 0 \/ (to # <<"?">> /\ Owner(p) = Owner(to))

followLink(g, p, l) ==
    CASE g.mode = 0 \/ g.links = MAX_LINKS -> [g EXCEPT !.res = "error"]
      [] g.mode = 2 /\ g.links < MAX_LINKS /\ ~ownersAgree(g, p, l) -> [g EXCEPT !.res = "error"]
      [] OTHER -> [g EXCEPT !.links = @ + 1, !.rest = l.to \o Tail(@), !.done = IF l.abs THEN << >> ELSE @,
                            !.bad = @ \/ ~ownersAgree(g, p, l)]

checkSymLinks ==
    /\ gp.call = "check" /\ gp.res = "none"
    /\ LET p == Append(gp.done, Head(gp.rest))
       IN  gp' = CASE gp.rest = << >> -> [gp EXCEPT !.res = "path"]
                   [] gp.rest # << >> /\ Head(gp.rest) = ".." -> skipDotDot(gp)
                   [] gp.rest # << >> /\ Head(gp.rest) # ".." /\ At(gp.fs, p).kind = "link" -> followLink(gp, p, At(gp.fs, p))
                   [] gp.rest # << >> /\ Head(gp.rest) # ".." /\ At(gp.fs, p).kind = "missing" -> notThere(gp, p)
                   [] OTHER -> noLink(gp, p)

-----------------------------------------------------------------------------
(* Creating the three directories above a file, by several processes; have *)
(* is how many are there, 4 when the file is, too.  A mkdir that another   *)
(* process was faster with is an error.                                    *)
StartCreate ==
    \E have \in 0 .. 4 :
        gp = [call |-> "create", have |-> have, at |-> [x \in PathProcs |-> 1],
              st |-> [x \in PathProcs |-> "valid"]]

isValid(x) ==
    /\ gp.call = "create" /\ gp.st[x] = "valid"
    /\ gp' = [gp EXCEPT !.st[x] = IF gp.have = 4 THEN "ok" ELSE "stat"]

afterStat(x, g) == IF g.at[x] = 3 THEN [g EXCEPT !.st[x] = "ok"] ELSE [g EXCEPT !.at[x] = @ + 1, !.st[x] = "stat"]

createStat(x) ==
    /\ gp.call = "create" /\ gp.st[x] = "stat"
    /\ gp' = IF gp.have >= gp.at[x] THEN afterStat(x, gp) ELSE [gp EXCEPT !.st[x] = "mkdir"]

createMkdir(x) ==
    /\ gp.call = "create" /\ gp.st[x] = "mkdir"
    /\ gp' = IF gp.have >= gp.at[x] THEN [gp EXCEPT !.st[x] = "error"]
             ELSE afterStat(x, [gp EXCEPT !.have = gp.at[x]])

-----------------------------------------------------------------------------
InitGp == StartClean \/ StartCheck \/ StartCreate
NextGp == Clean \/ checkSymLinks \/ \E x \in PathProcs : isValid(x) \/ createStat(x) \/ createMkdir(x)

(* Properties. *)

(* An absolute path is cleaned to its normal form, with no "." or ".."     *)
(* left and never above the root, whatever mix of dots and slashes it has  *)
(* (GPath::clean's automaton, which edits the string in place).            *)
CleanNormal ==
    gp.call = "cleaned" =>
        LET whole == IF gp.path # << >> /\ Head(gp.path) = "/" THEN gp.path ELSE gp.root \o <<"/">> \o gp.path
        IN  /\ gp.out = Joined(Normal(whole))
            /\ Append(gp.file, "/") = Joined(Normal(Append(whole, "a")))

(* A path that was resolved is the one the kernel resolves it to, and no   *)
(* part of it is a link (checkSymLinks with relative, absolute and nested  *)
(* links, and ".." after a link).                                          *)
ResolvedReal ==
    (gp.call = "check" /\ gp.res = "path") =>
        LET k == Walk(gp.fs, gp.path, MAX_LINKS, TRUE)
        IN  /\ k # <<"?">> => gp.done = k
            /\ gp.mode = 0 => gp.links = 0
            /\ \A n \in 1 .. Len(gp.done) : At(gp.fs, SubSeq(gp.done, 1, n)).kind # "link"

(* With the owners to be checked, no link was followed to something of     *)
(* another owner (checkSymLinks, getRealPath 2).                           *)
OwnersChecked == (gp.call = "check" /\ gp.mode = 2 /\ gp.res = "path") => ~gp.bad

(* A process told that the directories are there finds them all, though    *)
(* another one may be creating them (createMissingPath).                   *)
DirsThere ==
    gp.call = "create" => \A x \in PathProcs : gp.st[x] = "ok" => gp.have >= 3
=============================================================================
