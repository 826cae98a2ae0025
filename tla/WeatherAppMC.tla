---------------------------- MODULE WeatherAppMC ----------------------------
(* The weather app with the test accounts and one more. *)
EXTENDS WeatherApp, TLC

CONSTANTS ann, test, test1, pw, tpw, urbana

\* ann may register, and so may someone with the name of the test user.
SmallRegistrations ==
    {Row(ann, pw, "Dark"), Row(test, tpw, "Light"), Row(test, pw, "Light")}
=============================================================================
