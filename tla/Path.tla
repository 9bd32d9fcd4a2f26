-------------------------------- MODULE Path --------------------------------
(***************************************************************************)
(* CanonicalPath and PrefixBound (src/path.cc): the lexical form of a path *)
(* that the ABAC engine compares.  A path is a sequence of characters; "^" *)
(* stands for a control character and <<>> is the answer that rejects.     *)
(*                                                                         *)
(* The second half of the module says, without the algorithm, which place  *)
(* a path means, and the property compares the two.  Two paths grow one    *)
(* character at a time to meet it.                                         *)
(***************************************************************************)
EXTENDS Naturals, SequencesExt

CONSTANTS
    Letters,      \* letters and digits in paths; "A" has the lower case "a"
    MaxPath,      \* 4096
    MaxChars      \* bound: characters of the two paths together

Characters == Letters \cup {"/", "\\", ".", ":", "^"}
Alpha == {"a", "A"}

VARIABLES
    spelling,   \* the path looked at
    another     \* and one to compare it with

pathVars == <<spelling, another>>

-----------------------------------------------------------------------------
(* path.cc.                                                                *)

Refused(in) == in = <<>> \/ Len(in) > MaxPath \/ Contains(in, "^")

Lower(c) == IF c = "A" THEN "a" ELSE c
HasDrive(s) == Len(s) >= 2 /\ s[2] = ":" /\ s[1] \in Alpha
Prefix(s) == IF HasDrive(s) THEN <<Lower(s[1]), ":">> ELSE <<>>
StartsAtRoot(s) == s # <<>> /\ s[1] = "/"
AfterPrefix(s) ==
    LET t == SubSeq(s, 3, Len(s))
    IN IF ~HasDrive(s) THEN s ELSE IF StartsAtRoot(t) THEN t ELSE <<"/">> \o t

(* The parts between slashes.  A part starts behind a slash and takes in   *)
(* the characters that follow.                                             *)
Extended(s, parts, k) ==
    CASE s[k] = "/" -> parts
      [] s[k] # "/" /\ (k = 1 \/ s[k - 1] = "/") -> Append(parts, <<s[k]>>)
      [] OTHER -> [parts EXCEPT ![Len(parts)] = Append(@, s[k])]
Split(s) ==
    LET parts[k \in 0 .. Len(s)] == IF k = 0 THEN <<>> ELSE Extended(s, parts[k - 1], k)
    IN parts[Len(s)]

Here == <<".">>
Up == <<".", ".">>

(* What one part does to the stack: the names, and how often there was     *)
(* none to take back.  Mutant: ".." at the root is kept as a name.         *)
ResolveKeepsUp(st, part) ==
    CASE part = Here -> st
      [] part = Up /\ st.names # <<>> -> [st EXCEPT !.names = Front(@)]
      [] part = Up /\ st.names = <<>> -> [names |-> <<part>>, above |-> st.above + 1]
      [] OTHER -> [st EXCEPT !.names = Append(@, part)]
Resolve(st, part) ==
    CASE part = Here -> st
      [] part = Up /\ st.names # <<>> -> [st EXCEPT !.names = Front(@)]
      [] part = Up /\ st.names = <<>> -> [st EXCEPT !.above = @ + 1]
      [] OTHER -> [st EXCEPT !.names = Append(@, part)]
Resolved(parts) ==
    LET st[k \in 0 .. Len(parts)] == IF k = 0 THEN [names |-> <<>>, above |-> 0]
                                              ELSE Resolve(st[k - 1], parts[k])
    IN st[Len(parts)]

(* The names behind the root, with slashes between them.                   *)
Slashed(k, name) == IF k = 1 THEN name ELSE <<"/">> \o name
Joined(root, names) ==
    LET out[k \in 0 .. Len(names)] == IF k = 0 THEN root ELSE out[k - 1] \o Slashed(k, names[k])
    IN out[Len(names)]

CanonicalPath(in) ==
    LET s == ReplaceAll(in, "\\", "/")
        rest == AfterPrefix(s)
        abs == StartsAtRoot(rest)
        st == Resolved(Split(rest))
    IN IF Refused(in) \/ (~abs /\ st.above > 0)
       THEN <<>>
       ELSE Prefix(s) \o Joined(IF abs THEN <<"/">> ELSE <<>>, st.names)

PrefixBound(prefix, val) ==
    /\ prefix # <<>>
    /\ IsPrefix(prefix, val)
    /\ \/ Len(val) = Len(prefix)
       \/ Last(prefix) = "/"
       \/ val[Len(prefix) + 1] = "/"

-----------------------------------------------------------------------------
PathInit == spelling = <<>> /\ another = <<>>

(* First the one path grows, then the other, no longer than the first; not *)
(* past a control character, after which everything is refused.            *)
PathNext ==
    /\ Len(spelling) + Len(another) < MaxChars
    /\ \E c \in Characters :
          \/ /\ another = <<>> /\ ~Contains(spelling, "^")
             /\ spelling' = Append(spelling, c) /\ UNCHANGED another
          \/ /\ Len(another) < Len(spelling) /\ ~Contains(another, "^")
             /\ another' = Append(another, c) /\ UNCHANGED spelling

-----------------------------------------------------------------------------
(* What a path means, without a stack: a root and the names under it that  *)
(* no later ".." takes back.                                               *)

Slash(c) == c \in {"/", "\\"}
Root(in) ==
    IF HasDrive(in) THEN Lower(in[1]) ELSE IF Slash(in[1]) THEN "/" ELSE "relative"

(* The members of S up to n, the smallest first.                           *)
InOrder(S, n) ==
    LET upTo[i \in 0 .. n] == IF i = 0 THEN <<>>
                             ELSE IF i \in S THEN Append(upTo[i - 1], i) ELSE upTo[i - 1]
    IN upTo[n]

(* The longest runs of characters without a slash.                         *)
Parts(in) ==
    LET text == IF HasDrive(in) THEN SubSeq(in, 3, Len(in)) ELSE in
        Starts == {i \in 1 .. Len(text) : ~Slash(text[i]) /\ (i = 1 \/ Slash(text[i - 1]))}
        Stop(i) == CHOOSE j \in i .. Len(text) :
                      /\ \A k \in i .. j : ~Slash(text[k])
                      /\ j = Len(text) \/ Slash(text[j + 1])
        starts == InOrder(Starts, Len(text))
    IN [n \in 1 .. Len(starts) |-> SubSeq(text, starts[n], Stop(starts[n]))]

(* Between two parts there are more steps up than names.                   *)
Sinks(parts, first, last) ==
    LET ups == {k \in first .. last : parts[k] = Up}
        names == {k \in first .. last : parts[k] \notin {Up, Here}}
    IN Cardinality(ups) > Cardinality(names)

Names(parts) ==
    LET Stays(k) == /\ parts[k] \notin {Up, Here}
                    /\ \A last \in k + 1 .. Len(parts) : ~Sinks(parts, k + 1, last)
        staying == InOrder({k \in 1 .. Len(parts) : Stays(k)}, Len(parts))
    IN [n \in 1 .. Len(staying) |-> parts[staying[n]]]

Place(in) == [root |-> Root(in), names |-> Names(Parts(in))]

(* There is such a place.  A relative path that comes down to nothing      *)
(* ("." or "a/..") has none that the engine can name.                      *)
HasPlace(in) ==
    /\ ~Refused(in)
    /\ Root(in) = "relative" =>
          /\ Names(Parts(in)) # <<>>
          /\ \A last \in 1 .. Len(Parts(in)) : ~Sinks(Parts(in), 1, last)

(* A relative path to a file whose name is spelt like a drive ("./a:").    *)
SpeltLikeDrive(in) ==
    HasPlace(in) /\ Root(in) = "relative" /\ HasDrive(Names(Parts(in))[1])

Within(inner, outer) ==
    /\ Place(inner).root = Place(outer).root
    /\ IsPrefix(Place(outer).names, Place(inner).names)

-----------------------------------------------------------------------------
(* CanonicalPath accepts exactly the paths that mean a place, gives two of *)
(* them one form exactly when they mean the same place, and PrefixBound on *)
(* these forms is containment by whole names ("/tmp" holds "/tmp/a" and    *)
(* not "/tmpfoo").  Not so for names spelt like a drive, which come out as *)
(* the drive.                                                              *)
CanonicalIsLexical ==
    LET Sound(in) == HasPlace(in) /\ ~SpeltLikeDrive(in)
        c == CanonicalPath(spelling)
        d == CanonicalPath(another)
    IN /\ c # <<>> <=> HasPlace(spelling)
       /\ Sound(spelling) /\ Sound(another) =>
             /\ c = d <=> Place(spelling) = Place(another)
             /\ PrefixBound(c, d) <=> Within(another, spelling)
             /\ PrefixBound(d, c) <=> Within(spelling, another)
=============================================================================
