--------------------------- MODULE MCDdtpPrograms ---------------------------
(* Command lines for the two programs and accesses to the watched file.    *)
EXTENDS DdtpPrograms

MCPrograms == {"serve", "cli"}
MCOptionsOf == [p \in MCPrograms |-> IF p = "serve" THEN ServeOptions ELSE CliOptions]

Text(word) == [word |-> word, negative |-> FALSE, base |-> 10, digits |-> <<>>]
Number(word, negative, base, digits) ==
  [word |-> word, negative |-> negative, base |-> base, digits |-> digits]

Argument1(form, names, equals, text) ==
  [form |-> form, names |-> names, equals |-> equals, text |-> text]
Short1(letters, word)    == Argument1("short", letters, <<>>, Text(word))
Long(name)               == Argument1("long", <<name>>, <<>>, Text("--" \o name))
LongEquals(name, text)   == Argument1("long", <<name>>, <<text>>, Text("--"))
Bare(text)               == Argument1("word", <<>>, <<>>, text)
Separator                == Argument1("separator", <<>>, <<>>, Text("--"))
BadSyntax                == Argument1("malformed", <<>>, <<>>, Text("-="))

Port9000 == Number("9000", FALSE, 10, <<9, 0, 0, 0>>)
PortHex  == Number("0x2328", FALSE, 16, <<2, 3, 2, 8>>)          \* 9000
PortOver == Number("70000", FALSE, 10, <<7, 0, 0, 0, 0>>)        \* refused
PortHuge == Number("99999", FALSE, 10, <<9, 9, 9, 9, 9>>)        \* 34463 + 2^16
PortZero == Number("08992", FALSE, 10, <<0, 8, 9, 9, 2>>)
Zero     == Number("0", FALSE, 10, <<0>>)                         \* any port
Minus5   == Number("-5", TRUE, 10, <<5>>)
Minimum  == Number("-32768", TRUE, 10, <<3, 2, 7, 6, 8>>)
Maximum1 == Number("32768", FALSE, 10, <<3, 2, 7, 6, 8>>)
Letters  == Number("8a", FALSE, 10, <<8, 10>>)

File(name) == <<Short1(<<"f">>, "-f"), Bare(Text(name))>>
F == File("data")
C == <<Long("csv"), Bare(Text("out"))>>
At(word) == <<LongEquals("server", Text(word))>>
Port(text) == <<Short1(<<"p">>, "-p"), Bare(text)>>

ServeLines ==
  { <<>>,
    <<Short1(<<"v", "p">>, "-vp"), Bare(Port9000), Long("ipaddr"), Bare(Text("127.0.0.1"))>>,
    Port(PortHuge) \o <<LongEquals("port", PortHex), LongEquals("ipaddr", Text("10.0.0.1"))>>,
    <<LongEquals("ipaddr", Text("box")), LongEquals("verbose", Text("F"))>>,
    <<LongEquals("ipaddr", Text("10.9.9.9"))>>,
    <<Short1(<<"h">>, "-h")>>,
    <<LongEquals("port", Minus5)>>,
    <<LongEquals("port", Zero)>>,
    <<Short1(<<"p", "v">>, "-pv")>> }

CliLines ==
  { F \o C \o At("127.0.0.1"),
    File("other") \o C \o At("10.0.0.1") \o Port(PortHex) \o <<Long("header"), Bare(Text("x"))>>,
    F \o C \o At("box") \o Port(PortZero) \o <<Short1(<<"i">>, "-i"), Bare(Minimum)>>,
    C \o At("10.0.0.1") \o F \o <<Long("file"), Bare(Text("long")), Separator, Bare(Text("x"))>>,
    F \o C \o At("127.0.0.1") \o Port(PortOver),
    F \o C \o At("127.0.0.1") \o <<Short1(<<"f">>, "-f"), Short1(<<"f">>, "-f")>>,
    <<Long("help")>>,
    <<Long("helpless")>>,
    <<BadSyntax>>,
    F \o <<Long("csv")>>,
    <<LongEquals("iterations", Maximum1)>>,
    <<LongEquals("header", Text("maybe"))>>,
    Port(Letters) }

MCCommandLines ==
  {[p \in MCPrograms |-> IF p = "serve" THEN s ELSE c] : s \in ServeLines, c \in CliLines}

Access(by, pid, from, pages, misses, prev) ==
  [call |-> by, pid |-> pid, from |-> from, n |-> 1, size |-> 2,
   pages |-> pages, misses |-> misses, prev |-> prev]
MCAccesses == { Access("read", 7, 0, 4, 1, 0), Access("read", 7, 0, 4, 2, 0),
                Access("read", 7, 1, 0, 0, 2), Access("readv", 0, 1, 4, 0, 0) }
MCLeftovers == { [count |-> 9, pos |-> 9, pid |-> 9, sec |-> 9, usec |-> 9, ra_misses |-> 0,
                  ra_page_count |-> 0, last_cached_pos |-> 9] }
MCNoCrc == <<{}, 9, 9, 9, 9, 9, 9>>
MCCrc32(chunks) == chunks
=============================================================================
