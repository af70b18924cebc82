---------------------------- MODULE MCAmqpSession ---------------------------
(* Instances of AmqpSession for TLC. *)
EXTENDS AmqpSession

Method(ch, m) == Frame("method", ch, m, 0)
Header(ch, size) == Frame("header", ch, "none", size)
Body(ch, size) == Frame("body", ch, "none", size)
Beat == Frame("beat", 0, "none", 0)

(* Requests on two channels; pipelined gets; a message between the frames  *)
(* of another channel; contents that are cut short, too long or malformed; *)
(* an attempt to log in again; a frame above every limit.                  *)
MCScripts ==
    {<<Method(1, "declare"), Method(2, "declare"), Method(1, "bind")>>,
     <<Method(1, "get"), Method(1, "get")>>,
     <<Method(1, "get"), Method(2, "consume")>>,
     <<Method(1, "consume"), Method(1, "publish"), Header(1, 1), Body(1, 1),
       Method(1, "bind")>>,
     <<Method(1, "publish"), Header(1, 2), Method(2, "get"), Body(1, 1), Body(1, 1)>>,
     <<Method(1, "publish"), Body(1, 1), Header(1, 1), Body(1, 2), Body(1, 1)>>,
     <<Method(1, "publish"), Method(1, "publish"), Header(1, 0), Header(1, 1)>>,
     <<Method(1, "publish"), Header(1, -1), Frame("other", 1, "none", 0), Beat>>,
     <<Method(1, "bind"), Method(2, "publish"), Method(0, "update-secret"),
       Method(1, "bind")>>,
     <<Method(1, "start-ok")>>,
     <<Method(1, "declare-nowait"), Method(1, "publish"), Header(1, 5), Body(1, 3),
       Body(1, 2)>>,
     <<Method(1, "publish"), Header(1, 4), Body(1, 4)>>}

TuneSet(frames, channels) == [frameMax : frames, channelMax : channels]
MCServerTunes == TuneSet({0, 3}, {0, 1})
MCClientTunes == TuneSet({0, 1, 3}, {0, 1, 2})
=============================================================================
