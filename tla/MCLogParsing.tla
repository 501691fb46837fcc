---------------------------- MODULE MCLogParsing ----------------------------
(* Stamps on both sides of every edge of the year that is guessed: the turn of the  *)
(* year, the leap day, a year and a day ago and a day ahead of the clock, in half   *)
(* days.  Dates vary in texts of one line, the other things a line may be in texts  *)
(* of up to three.                                                                  *)
EXTENDS LogParsing

At(y, m, d, t) == [y |-> y, m |-> m, d |-> d, t |-> t]
Stamps ==
    {At(y, m, d, t) : y \in {2023, 2024, 2025},
        m \in {1, 2, 3, 12}, d \in {1, 2, 28, 29, 31}, t \in {0, 1}}
Shown == {s \in Stamps : s.d <= DaysIn(s.y, s.m)}
Servers ==
    {At(2024, 2, 29, 0), At(2024, 3, 1, 1), At(2024, 12, 31, 1), At(2025, 1, 1, 0),
     At(2025, 2, 28, 1), At(2025, 3, 1, 0)}

Base == [form |-> "iso", stamp |-> At(2024, 3, 1, 0), offset |-> 0, zoned |-> TRUE,
         english |-> TRUE, event |-> "auth_failure", request |-> {}, status |-> 200]
Dates ==
    {[Base EXCEPT !.form = form, !.stamp = stamp] :
        form \in {"iso", "bsd", "clf"}, stamp \in Shown}
Oddities ==
    {[Base EXCEPT !.form = form, !.offset = 1, !.zoned = zoned] :
        form \in {"iso", "clf"}, zoned \in BOOLEAN}
    \union {[Base EXCEPT !.form = form, !.english = FALSE] : form \in {"bsd", "clf"}}
    \union {[Base EXCEPT !.form = "bsd", !.stamp.d = 31, !.stamp.m = 2]}
    \union {[Base EXCEPT !.form = "none"]}

Failed == Base
Sudo == [Base EXCEPT !.event = "sudo_command"]
Closed == [Base EXCEPT !.event = "session_closed", !.form = "bsd", !.english = FALSE]
Unknown == [Base EXCEPT !.event = None, !.request = None]
Odd == [Unknown EXCEPT !.form = "bsd", !.english = FALSE]
Noise == [Unknown EXCEPT !.form = "none"]
Empty == [Noise EXCEPT !.form = "blank"]
Attack ==
    [Base EXCEPT !.form = "clf", !.event = None, !.status = 404, !.request =
        {<<"sqli", "decoded_query">>, <<"sqli", "decoded_path">>, <<"scanner", "query">>,
         <<"scanner", "request_line">>, <<"xss", "user_agent">>}]
Texts ==
    UNION {[1..n -> {Failed, Sudo, Closed, Odd, Noise, Empty, Attack}] : n \in 0..3}

MCArtifacts ==
    {[lines |-> <<line>>, utf8 |-> TRUE] : line \in Dates \union Oddities}
    \union {[lines |-> text, utf8 |-> Len(text) # 1] : text \in Texts}
MCOptions ==
    {[year_hint |-> hint, max_lines |-> max, min_status_filter |-> status,
      detect_attacks |-> status = None] :
        hint \in {None, 2023}, max \in {1, 2}, status \in {None, 400}}
=============================================================================
