---------------------------- MODULE CommandCodec ----------------------------
(***************************************************************************)
(* The text command codec of tsproto (src/tsproto/src/commands.rs).        *)
(*                                                                         *)
(* A string is a sequence of one-character TLA+ strings.  A command is    *)
(* the Rust struct Command: a name, ordered static arguments and ordered   *)
(* list rows, every argument a <<key, value>> pair of strings.  The sender *)
(* side builds a command with Command::new, push, replace, remove and by   *)
(* pushing list rows; every state is then sent: Command::write produces    *)
(* the wire text and the receiver parses it with parse_command2 and        *)
(* flattens it with CommandData::iter into canonical rows, as              *)
(* tsclientlib does with every incoming command.                           *)
(*                                                                         *)
(* The vertical tab (\v) has no TLA+ string literal; it is left out of the *)
(* alphabet.  Every other special character of the grammar is modelled.    *)
(***************************************************************************)
EXTENDS Integers, Sequences, SequencesExt, FiniteSets, TLC

CONSTANTS
    Names,       \* command names the sender may use (<<>>: serverquery form)
    Keys,        \* argument keys (non-empty strings of key characters)
    Values,      \* argument values (strings over the whole alphabet)
    RowValues,   \* the values pushed in list rows
    ReturnCode,  \* the key "return_code", written with "=" even when empty
    MaxStatics,  \* bound on the number of static arguments
    MaxRows,     \* bound on the number of list rows
    MaxRowLen    \* bound on the number of arguments of one row

VARIABLE cmd     \* the Command the sender has built

vars == <<cmd>>

-----------------------------------------------------------------------------
(* Character classes of the nom grammar.                                   *)

\* nom's multispace
Multispace == {" ", "\t", "\r", "\n"}
\* characters is_not!("\u{b}\u{c}\\\t\r\n| /=") stops at in a key
KeyStop == {"\f", "\\", "\t", "\r", "\n", "|", " ", "/", "="}
\* characters is_not!("\u{b}\u{c}\\\t\r\n| /") stops at in a value
ValueStop == KeyStop \ {"="}
\* ASCII letters and digits the model's strings use (nom's alphanumeric)
Alnum == {"a", "b", "c", "f", "n", "p", "r", "s", "t", "x"}
Alphabet == Alnum \cup KeyStop

ASSUME /\ \A n \in Names : \A i \in DOMAIN n : n[i] \in Alnum
       /\ \A k \in Keys : k # <<>> /\ \A i \in DOMAIN k : k[i] \in Alnum
       /\ \A v \in Values : \A i \in DOMAIN v : v[i] \in Alphabet
       /\ RowValues \subseteq Values
       /\ ReturnCode \in Keys
       /\ {MaxStatics, MaxRows, MaxRowLen} \subseteq Nat

\* The escape sequences the parser accepts: "\" followed by the key
\* character stands for the mapped character (commands.rs:28-37).
Unescape == ("f" :> "\f") @@ ("\\" :> "\\") @@ ("t" :> "\t") @@
            ("r" :> "\r") @@ ("n" :> "\n") @@ ("p" :> "|") @@
            ("s" :> " ") @@ ("/" :> "/")

Arg == Keys \X Values
Command == [command : Names, static_args : Seq(Arg), list_args : Seq(Seq(Arg))]

-----------------------------------------------------------------------------
(* Serialisation: Command::write_escaped, write_key_val and write.         *)

\* Mutant: a carriage return written with the escape letter of a line feed.
EscapeOf_typo(c) ==
    CASE c = "\f" -> <<"\\", "f">>
      [] c = "\\" -> <<"\\", "\\">>
      [] c = "\t" -> <<"\\", "t">>
      [] c = "\r" -> <<"\\", "n">>
      [] c = "\n" -> <<"\n">>
      [] c = "|"  -> <<"\\", "p">>
      [] c = " "  -> <<"\\", "s">>
      [] c = "/"  -> <<"\\", "/">>
      [] OTHER    -> <<c>>

\* The escape written for one character; '\n' is written by writeln!, i.e.
\* as a literal line feed.
EscapeOf(c) ==
    CASE c = "\f" -> <<"\\", "f">>
      [] c = "\\" -> <<"\\", "\\">>
      [] c = "\t" -> <<"\\", "t">>
      [] c = "\r" -> <<"\\", "r">>
      [] c = "\n" -> <<"\n">>
      [] c = "|"  -> <<"\\", "p">>
      [] c = " "  -> <<"\\", "s">>
      [] c = "/"  -> <<"\\", "/">>
      [] OTHER    -> <<c>>

\* Mutant: '|' left unescaped.
write_escaped_no_pipe(s) ==
    FlattenSeq([i \in DOMAIN s |-> IF s[i] = "|" THEN <<"|">> ELSE EscapeOf(s[i])])

write_escaped(s) == FlattenSeq([i \in DOMAIN s |-> EscapeOf(s[i])])

write_key_val(k, v) ==
    IF v = <<>> /\ k # ReturnCode THEN k
    ELSE k \o <<"=">> \o write_escaped(v)

write(c) ==
    LET statics == [i \in DOMAIN c.static_args |->
                      <<" ">> \o write_key_val(c.static_args[i][1], c.static_args[i][2])]
        row(i) == LET args == c.list_args[i] IN
                  (IF i # 1 THEN <<"|">> ELSE <<>>) \o
                  FlattenSeq([j \in DOMAIN args |->
                      (IF j # 1 \/ i = 1 THEN <<" ">> ELSE <<>>) \o
                      write_key_val(args[j][1], args[j][2])])
    IN c.command \o FlattenSeq(statics) \o
       FlattenSeq([i \in DOMAIN c.list_args |-> row(i)])

-----------------------------------------------------------------------------
(* Parsing: the nom grammar of inner_parse_command, position by position. *)
(* A nom parser that fails leaves the position where it was.              *)

\* First position at or after i whose character is in Stop (or Len(s)+1).
RECURSIVE Scan(_, _, _)
Scan(s, i, Stop) == IF i <= Len(s) /\ s[i] \notin Stop THEN Scan(s, i + 1, Stop) ELSE i

\* many0!(multispace)
SkipSpace(s, i) == Scan(s, i, Alphabet \ Multispace)

\* The value after "=": plain characters and known escapes, up to the first
\* character that is neither; an unknown escape ends the value.
RECURSIVE ParseValue(_, _)
ParseValue(s, i) ==
    IF i <= Len(s) /\ s[i] \notin ValueStop
    THEN LET r == ParseValue(s, i + 1) IN [val |-> <<s[i]>> \o r.val, next |-> r.next]
    ELSE IF i + 1 <= Len(s) /\ s[i] = "\\" /\ s[i + 1] \in DOMAIN Unescape
    THEN LET r == ParseValue(s, i + 2) IN [val |-> <<Unescape[s[i + 1]]>> \o r.val, next |-> r.next]
    ELSE [val |-> <<>>, next |-> i]

\* command_arg2: spaces, a key of at least one character, optionally "=" value.
command_arg2(s, i) ==
    LET j == SkipSpace(s, i)
        e == Scan(s, j, KeyStop)
        key == SubSeq(s, j, e - 1)
    IN IF e = j THEN [ok |-> FALSE]
       ELSE IF e <= Len(s) /\ s[e] = "="
       THEN LET v == ParseValue(s, e + 1)
            IN [ok |-> TRUE, arg |-> <<key, v.val>>, next |-> v.next]
       ELSE [ok |-> TRUE, arg |-> <<key, <<>>>>, next |-> e]

\* many0!(command_arg2) / many1!(command_arg2)
RECURSIVE ParseArgs(_, _)
ParseArgs(s, i) ==
    LET a == command_arg2(s, i) IN
    IF ~a.ok THEN [args |-> <<>>, next |-> i]
    ELSE LET r == ParseArgs(s, a.next) IN [args |-> <<a.arg>> \o r.args, next |-> r.next]

\* many0!(spaces "|" many1!(command_arg2))
RECURSIVE ParseLists(_, _)
ParseLists(s, i) ==
    LET j == SkipSpace(s, i)
        a == ParseArgs(s, j + 1)
    IN IF j <= Len(s) /\ s[j] = "|" /\ a.args # <<>>
       THEN LET r == ParseLists(s, a.next) IN [lists |-> <<a.args>> \o r.lists, next |-> r.next]
       ELSE [lists |-> <<>>, next |-> i]

\* alt!(alphanumeric multispace | tag!("")): the name needs a following space.
ParseName(s) ==
    LET e == Scan(s, 1, Alphabet \ Alnum) IN
    IF e > 1 /\ e <= Len(s) /\ s[e] \in Multispace
    THEN [name |-> SubSeq(s, 1, e - 1), next |-> SkipSpace(s, e)]
    ELSE [name |-> <<>>, next |-> 1]

inner_parse_command(s) ==
    LET n == ParseName(s)
        st == ParseArgs(s, n.next)
        ls == ParseLists(s, st.next)
    IN [ok |-> SkipSpace(s, ls.next) = Len(s) + 1,   \* many0!(multispace) eof!()
        command |-> n.name, static_args |-> st.args, list_args |-> ls.lists]

\* Mutant: the promoted row pushed at the end instead of inserted at 0.
Promote_appended(c) ==
    IF c.list_args = <<>> THEN c
    ELSE LET step(acc, a) ==
                 LET i == SelectInSeq(acc.st, LAMBDA p : p[1] = a[1]) IN
                 IF i = 0 THEN acc
                 ELSE [st |-> RemoveAt(acc.st, i), la |-> Append(acc.la, acc.st[i])]
             r == FoldLeft(step, [st |-> c.static_args, la |-> <<>>], c.list_args[1])
         IN [c EXCEPT !.static_args = r.st, !.list_args = Append(@, r.la)]

\* The promotion of parse_command2: every key of the first list row that is
\* a static argument moves, first occurrence, from the statics into a new
\* first row, in the order of the first row's keys.
Promote(c) ==
    IF c.list_args = <<>> THEN c
    ELSE LET step(acc, a) ==
                 LET i == SelectInSeq(acc.st, LAMBDA p : p[1] = a[1]) IN
                 IF i = 0 THEN acc
                 ELSE [st |-> RemoveAt(acc.st, i), la |-> Append(acc.la, acc.st[i])]
             r == FoldLeft(step, [st |-> c.static_args, la |-> <<>>], c.list_args[1])
         IN [c EXCEPT !.static_args = r.st, !.list_args = <<r.la>> \o @]

parse_command2(s) ==
    LET p == inner_parse_command(s) IN
    [ok |-> p.ok,
     cmd |-> Promote([command |-> p.command, static_args |-> p.static_args,
                      list_args |-> p.list_args])]

\* parse_command, the grammar of Command::read: command_arg reads a key as
\* many1 runs of is_not and a value as many0 of the escapes and plain runs,
\* which accept what command_arg2's is_not, prefix and rest accept.
parse_command(s) == inner_parse_command(s)

\* Mutant: the read command keeps the statics of the first row.
read_unpromoted(s) ==
    LET p == parse_command(s) IN
    [ok |-> p.ok, cmd |-> [command |-> p.command, static_args |-> p.static_args,
                           list_args |-> p.list_args]]

\* Command::read: parse_command over the whole text, an error if input is
\* left, and the same list promotion as parse_command2, into a Command.
read(s) ==
    LET p == parse_command(s) IN
    [ok |-> p.ok,
     cmd |-> Promote([command |-> p.command, static_args |-> p.static_args,
                      list_args |-> p.list_args])]

-----------------------------------------------------------------------------
(* Canonical rows: CommandData::iter and CommandDataIterator::next.        *)

\* A list of pairs collected into a HashMap: a later pair overrides.
MapOf(pairs) == FoldLeft(LAMBDA m, p : (p[1] :> p[2]) @@ m, <<>>, pairs)

iter(c) ==
    IF c.list_args = <<>> THEN <<MapOf(c.static_args)>>
    ELSE [i \in DOMAIN c.list_args |-> MapOf(c.list_args[i]) @@ MapOf(c.static_args)]

\* CanonicalCommand::get: the value of a key in a canonical row, if any.
get(row, k) == IF k \in DOMAIN row THEN <<row[k]>> ELSE <<>>

\* Command::is_valid
is_valid(c) ==
    \/ c.list_args = <<>>
    \/ LET first == c.list_args[1] IN
       \A i \in 2..Len(c.list_args) :
          LET l == c.list_args[i] IN
          /\ Len(l) = Len(first)
          /\ \A x \in 1..Len(first) : ~\E y \in 1..Len(l) : l[y][1] = first[x][1]

-----------------------------------------------------------------------------
(* The sender's operations on a Command.                                   *)

new(name) == [command |-> name, static_args |-> <<>>, list_args |-> <<>>]

push(k, v) ==
    /\ Len(cmd.static_args) < MaxStatics
    /\ cmd' = [cmd EXCEPT !.static_args = Append(@, <<k, v>>)]

\* Mutant: key and value swapped in the replaced argument.
replace_swapped(k, v) ==
    LET i == SelectInSeq(cmd.static_args, LAMBDA p : p[1] = k) IN
    cmd' = IF i = 0 THEN cmd ELSE [cmd EXCEPT !.static_args[i] = <<v, k>>]

\* The value of the first static argument with key k replaced, if any.
Replaced(c, k, v) ==
    LET i == SelectInSeq(c.static_args, LAMBDA p : p[1] = k) IN
    IF i = 0 THEN c ELSE [c EXCEPT !.static_args[i] = <<k, v>>]

replace(k, v) == cmd' = Replaced(cmd, k, v)

\* Remove every static argument with key k (retain).
remove(k) ==
    cmd' = [cmd EXCEPT !.static_args = SelectSeq(@, LAMBDA p : p[1] # k)]

\* Pushing a list row onto the public list_args field.
Rows == {r \in BoundedSeq(Keys \X RowValues, MaxRowLen) : r # <<>>}

push_row(r) ==
    /\ Len(cmd.list_args) < MaxRows
    /\ cmd' = [cmd EXCEPT !.list_args = Append(@, r)]

Init == \E n \in Names : cmd = new(n)

Next ==
    \/ \E k \in Keys, v \in Values : push(k, v) \/ replace(k, v)
    \/ \E k \in Keys : remove(k)
    \/ \E r \in Rows : push_row(r)

Spec == Init /\ [][Next]_vars

-----------------------------------------------------------------------------
(* Properties.                                                             *)

TypeOK ==
    /\ cmd \in Command
    /\ Len(cmd.static_args) <= MaxStatics
    /\ Len(cmd.list_args) <= MaxRows

\* The spec's notion of a valid list: every row has the same set of keys,
\* each key once.
KeySet(row) == {row[i][1] : i \in DOMAIN row}
ValidList(c) ==
    \A i, j \in DOMAIN c.list_args :
        /\ KeySet(c.list_args[i]) = KeySet(c.list_args[j])
        /\ Len(c.list_args[i]) = Cardinality(KeySet(c.list_args[i]))

\* What the receiver sees of a command the sender wrote.
Received(c) == parse_command2(write(c))

\* The three ways a valid command fails the round trip (see the findings):
\* a value holding a line feed, a named command without arguments, and a
\* static argument whose key is also a list key.
HasNewline(c) ==
    \/ \E i \in DOMAIN c.static_args : "\n" \in Range(c.static_args[i][2])
    \/ \E i \in DOMAIN c.list_args : \E j \in DOMAIN c.list_args[i] :
          "\n" \in Range(c.list_args[i][j][2])
NameWithoutArgs(c) == c.command # <<>> /\ c.static_args = <<>> /\ c.list_args = <<>>
ShadowedStatic(c) ==
    \E i \in DOMAIN c.static_args, r \in DOMAIN c.list_args :
        c.static_args[i][1] \in KeySet(c.list_args[r])

\* Every command Command::write produces without a line feed in a value is
\* accepted by parse_command2, whatever its lists, name or duplicate keys:
\* the escapes of write_escaped cover every other character the grammar
\* stops at.  A line feed is written raw (writeln!) and ends the value, so
\* push(k, "\n ") gives text the parser rejects (codec_newline).
WrittenParses == ~HasNewline(cmd) => Received(cmd).ok

\* Spec 8.1: parse(serialize(c)) == canonicalize(c) for valid commands: the
\* receiver reads the same name and the same canonical rows (CommandData::iter)
\* as the sender's command has.
AgreesWith(received, c) ==
    /\ received.ok
    /\ received.cmd.command = c.command
    /\ iter(received.cmd) = iter(c)
CanonicalRoundTrip(c) == AgreesWith(Received(c), c)

ValidRoundTrip == ValidList(cmd) => CanonicalRoundTrip(cmd)

\* Outside those three cases the round trip holds: Command::write and
\* parse_command2 with its list promotion and CommandData::iter agree.
WellFormedRoundTrip ==
    (ValidList(cmd) /\ ~HasNewline(cmd) /\ ~NameWithoutArgs(cmd) /\ ~ShadowedStatic(cmd))
        => CanonicalRoundTrip(cmd)

\* Every list row has the keys of the first row in the same order: the
\* shape of the lists the message codec builds.
SameShape(c) ==
    \A i \in DOMAIN c.list_args :
        [j \in DOMAIN c.list_args[i] |-> c.list_args[i][j][1]] =
        [j \in DOMAIN c.list_args[1] |-> c.list_args[1][j][1]]

\* The text Command::read accepts and Command::write writes back unchanged.
RewritesTo(reread, text) == reread.ok /\ write(reread.cmd) = text
Rereads(text) == RewritesTo(read(text), text)

\* Spec scenario S1, "re-serialize -> exact original bytes": a command that
\* Command::read takes from the text Command::write sent, written again, is
\* that text byte for byte.  The reader's list promotion must rebuild the
\* first row, which the writer put after the statics, in its place and
\* order; escapes, bare keys and the "=" of an empty return_code must come
\* back as they were.  This holds for rows of one shape outside the three
\* known cases.
ReserializesExactly ==
    (SameShape(cmd) /\ ~HasNewline(cmd) /\ ~NameWithoutArgs(cmd) /\ ~ShadowedStatic(cmd))
        => Rereads(write(cmd))

\* Every canonical row reads v for k.
ReadsEverywhere(rows, k, v) == \A r \in DOMAIN rows : get(rows[r], k) = <<v>>

\* The doc comment of Command::replace, "Replace an argument if it exists":
\* whenever the command holds a static argument k, replace(k, v) makes the
\* receiver's CanonicalCommand::get read v for k in every canonical row
\* (outside the three known cases).  An earlier push of k with another
\* value keeps the receiver on the last pair, while replace edits the first.
ReplaceTakesEffect ==
    \A k \in Keys, v \in Values :
        LET c2 == Replaced(cmd, k, v) IN
        (/\ \E i \in DOMAIN cmd.static_args : cmd.static_args[i][1] = k
         /\ ~HasNewline(c2) /\ ~NameWithoutArgs(c2) /\ ~ShadowedStatic(c2))
            => ReadsEverywhere(iter(Received(c2).cmd), k, v)

\* Spec 6: the encoder must not emit a literal line feed (write_escaped).
NoLiteralNewline == "\n" \notin Range(write(cmd))

=============================================================================
