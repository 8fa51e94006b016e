------------------------------ MODULE MCNhac -------------------------------
(***************************************************************************)
(* Calls of nhac for model checking.  A description is built from          *)
(* structured messages, so that what it asks for is known without parsing  *)
(* it; the header macro is written out as the help text explains it.       *)
(***************************************************************************)
EXTENDS Nhac

Tok(kind)    == [kind |-> kind, value |-> <<>>]
Name(name)   == [kind |-> "name", value |-> name]
Hex(byte)    == [kind |-> "hex", value |-> byte]
Number(n)    == [kind |-> "number", value |-> n]
Long(n)      == [kind |-> "long", value |-> n]
String(bytes) == [kind |-> "string", value |-> bytes]

(* <tag>(<value>); without a value, with or without parentheses. *)
Item(tag, parts)  == [tag |-> tag, parts |-> parts, parens |-> parts # <<>>]
EmptyParens(tag)  == [tag |-> tag, parts |-> <<>>, parens |-> TRUE]

RenderItem(item) ==
    <<item.tag>> \o IF item.parens THEN <<Tok("(")>> \o item.parts \o <<Tok(")")>> ELSE <<>>

Render(items) ==
    <<Tok("{")>> \o FlattenSeq([i \in DOMAIN items |-> RenderItem(items[i])]) \o <<Tok("}")>>

(* "m("NHA1") v(0x00 0x00 0x00 0x01) t(0x01) f(<flags>)" *)
Expand(item) ==
    IF ~IsMacro(item.tag) THEN <<item>>
    ELSE <<Item(Name("m"), <<String(<<78, 72, 65, 49>>)>>),
           Item(Name("v"), <<Hex(0), Hex(0), Hex(0), Hex(1)>>),
           Item(Name("t"), <<Hex(1)>>),
           Item(Name("f"), IF item.parts = <<>> THEN <<Hex(0)>> ELSE item.parts)>>

(* The tags and the bytes of values, as the help text has them. *)
HelpTag(token) ==
    IF token.kind = "hex" THEN token.value
    ELSE [m |-> 0, magic |-> 0, v |-> 1, t |-> 2, f |-> 3, u |-> 4,
          d |-> 145, rx |-> 146, tx |-> 147, l |-> 148][token.value]

HelpBytes(token) ==
    CASE token = Number(64000) -> <<0, 250, 0, 0>>
      [] token = Long(513)     -> <<1, 2, 0, 0, 0, 0, 0, 0>>
      [] token.kind = "string" -> token.value
      [] token.kind = "hex"    -> <<token.value>>

Asks(items) ==
    LET all == FlattenSeq([i \in DOMAIN items |-> Expand(items[i])])
    IN  [i \in DOMAIN all |->
            [tag   |-> HelpTag(all[i].tag),
             value |-> FlattenSeq([j \in DOMAIN all[i].parts |-> HelpBytes(all[i].parts[j])])]]

H     == Item(Name("H"), <<>>)
Plain == {Name("d"), Name("rx"), Name("tx"), Name("l"), Hex(153)}

Query(tags) == [i \in 1 .. Len(tags) + 1 |-> IF i = 1 THEN H ELSE Item(tags[i - 1], <<>>)]

(* Messages that the server answers, with and without body. *)
GoodMessages ==
    {Query(<<a>>) : a \in Plain}
        \cup {Query(<<Name("tx"), Name("d"), Name("rx"), Name("l")>>)}
        \cup {<<Item(Name("Header"), <<Hex(2)>>), Item(Name("d"), <<>>)>>,
              <<H, Item(Name("u"), <<Long(513), Hex(7), String(<<1, 2>>), Number(64000)>>), EmptyParens(Name("rx"))>>,
              <<H, Item(Name("rx"), <<Hex(1), Hex(2)>>)>>,
              <<Item(Name("magic"), <<String(<<78, 72, 65, 49>>)>>), Item(Hex(1), <<Hex(0), Hex(0), Hex(0), Hex(1)>>),
                Item(Name("t"), <<Hex(1)>>), Item(Name("f"), <<Hex(0)>>)>>}

Zeros(n) == [i \in 1 .. n |-> 0]

(* The longest value, sent alone. *)
LongestMessage == <<H, Item(Name("u"), <<String(Zeros(255))>>)>>

(* Messages that it refuses, the last three because of their sizes. *)
BadMessages ==
    {<<>>, <<Item(Name("d"), <<>>)>>, <<Item(Name("H"), <<Hex(1)>>), Item(Name("d"), <<>>)>>,
     Query(<<Name("d"), Name("d"), Name("rx")>>),
     <<H, Item(Name("u"), <<String(Zeros(256))>>)>>,
     <<H, Item(Name("u"), <<String(Zeros(255))>>), Item(Hex(153), <<String(Zeros(255))>>)>>,
     <<H, Item(Name("u"), <<String(Zeros(250)), Long(513)>>), Item(Name("rx"), <<>>)>>}

(* Texts after which nothing is sent any more. *)
Faulty ==
    {<<Name("H")>>, <<Tok("{")>>, <<Tok("{"), Name("d")>>, <<Tok("{"), Name("d"), Tok("(")>>,
     <<Tok("{"), Tok("(")>>, <<Tok("{"), Name("d"), Tok("("), Tok("(")>>,
     <<Tok("{"), Name("d"), Tok("("), Tok("unclosed"), Tok(")"), Tok("}")>>,
     <<Tok("{"), Name("zz"), Tok("}")>>, <<Tok("{"), Number(4), Tok("}")>>,
     <<Tok("{"), Name("H"), Tok("#"), Tok("}")>>}

Host == [switches |-> FALSE, text |-> <<>>]
Text(tokens)    == [switches |-> FALSE, text |-> tokens]
Switches(chars) == [switches |-> TRUE, text |-> chars]

Call(argv, stdin, asks, sound) == [argv |-> argv, stdin |-> stdin, asks |-> asks, sound |-> sound]

Comment == <<Tok("#"), Tok("}"), Name("zz"), Tok("newline")>>

GoodCalls ==
    {Call(<<Host, Host>>, Render(m) \o Comment \o Render(n), <<Asks(m), Asks(n)>>, TRUE)
        : m \in GoodMessages, n \in {Query(<<Name("d")>>)}}

(* A comment on the command line hides the words that follow it. *)
OtherCalls ==
    {Call(<<Host, Host, Text(Render(m))>>, <<>>, <<Asks(m)>>, TRUE) : m \in BadMessages \cup {LongestMessage}}
        \cup {Call(<<Host, Host, Text(Render(Query(<<Name("d")>>))), Text(f)>>, <<>>,
                   <<Asks(Query(<<Name("d")>>))>>, FALSE) : f \in Faulty}
        \cup {Call(<<Switches(<<"j", "q">>), Host, Host, Text(Render(H1)), Switches(<<"q">>), Text(<<Tok("#")>>), Text(Render(H1))>>,
                   Render(H1), <<Asks(H1)>>, TRUE) : H1 \in {Query(<<Name("rx")>>)}}
        \cup {Call(<<Host, Host, Text(<<>>)>>, Render(Query(<<>>)), <<>>, TRUE)}
        \cup {Call(a, <<>>, <<>>, TRUE) :
                 a \in {<<>>, <<Host>>, <<Host, Switches(<<"h">>)>>, <<Switches(<<"q", "H", "x">>)>>,
                        <<Switches(<<"q", "x", "H">>), Host, Host>>, <<Host, Host>>}}

AllCalls == GoodCalls \cup OtherCalls

(* A digest of the length and the last bytes. *)
Digest(bytes) ==
    LET n == Len(bytes) IN [i \in 1 .. 16 |-> (n + IF i < n THEN bytes[n - i + 1] ELSE 0) % 256]

Xored(digest) == [i \in 1 .. 16 |-> (digest[i] + 1) % 256]
============================================================================
