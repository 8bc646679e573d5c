---------------------------- MODULE MCHttpClient ----------------------------
EXTENDS HttpClient

Line(x) == <<x, CR, LF>>
Blank == <<CR, LF>>
Byte == <<<<"byte", 0>>>>
Status(code) == Line(<<"status", code>>)
ContentLength(n) == Line(<<"content-length", n>>)
Field == Line(<<"field", 0>>)
Chunked == Line(<<"transfer-encoding", 1>>)
Chunk(n) == Line(<<"size", n>>)

Reply(method, wire, good, code, body) ==
    [method |-> method, wire |-> wire, good |-> good, code |-> code, body |-> body]

MCReplies == {
    Reply("GET", Status(200) \o ContentLength(2) \o Blank \o Byte \o Byte, TRUE, 200, 2),
    Reply("GET", Status(200) \o Chunked \o Blank \o Chunk(1) \o Byte \o Blank \o Chunk(0) \o Field \o Blank, TRUE, 200, 1),
    Reply("GET", Status(200) \o Line(<<"transfer-encoding", 0>>) \o Blank \o Byte, TRUE, 200, 1),
    Reply("GET", Status(200) \o Blank \o Byte \o Byte, TRUE, 200, 2),
    Reply("HEAD", Status(200) \o ContentLength(2) \o Blank, TRUE, 200, 0),
    Reply("GET", Status(100) \o Blank \o Status(204) \o ContentLength(1) \o Blank, TRUE, 204, 0),
    Reply("GET", Status(200) \o ContentLength(1) \o ContentLength(2) \o Blank \o Byte, FALSE, 200, 1),
    Reply("GET", Status(200) \o Chunked \o ContentLength(1) \o Blank \o Byte, FALSE, 200, 1),
    Reply("CONNECT", Status(200) \o Blank, TRUE, 200, 0),
    Reply("GET", Status(101) \o Blank, TRUE, 101, 0),
    Reply("GET", Status(200) \o Chunked \o Blank \o Chunk(0) \o Field \o Field \o Blank, FALSE, 200, 0),
    Reply("GET", Status(200) \o Field \o Field \o Field \o Blank \o Byte, FALSE, 200, 1),
    Reply("GET", Status(200) \o <<<<"field", 0>>>> \o Line(<<"field", 0>>) \o Blank \o Byte, FALSE, 200, 1)}

MCStreamed == {
    Reply("GET", Status(200) \o Chunked \o Blank \o Chunk(1) \o Byte \o Blank \o Chunk(0) \o Blank, TRUE, 200, 1)}
MCUntilClose == {Reply("GET", Status(200) \o Blank \o Byte \o Byte, TRUE, 200, 2)}
MCSized == {Reply("GET", Status(200) \o ContentLength(1) \o Blank \o Byte, TRUE, 200, 1)}
=============================================================================
