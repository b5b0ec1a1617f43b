----------------------------- MODULE MCLifecycle -----------------------------
(* Configurations for Lifecycle: the sample of the repository, two phones     *)
(* with two plans, two buttons of one id, and one for each way to refer to    *)
(* what is not there.                                                         *)
EXTENDS Lifecycle

Book == [path |-> "/book", provider |-> "default", type |-> "yealink", ttl |-> 60]
Night(id) == [id |-> id, type |-> "night_button", target |-> "Custom:night"]
Park(id) == [id |-> id, type |-> "park_button", target |-> "lot"]
Path(type, id) == [type |-> type, button_id |-> id, path |-> type, info |-> "info"]
Phone(name, plan, paths) == [name |-> name, button_plan |-> plan, http_paths |-> paths]

Sample ==
    [providers |-> {"default"},
     phonebooks |-> <<Book, [Book EXCEPT !.path = "/snom", !.type = "snom"]>>,
     expire_path |-> "/expire",
     button_plans |-> <<[name |-> "plan", buttons |-> <<Night(1), Park(2)>>]>>,
     phones |-> <<Phone("phone", "plan", <<Path("http_state", 0), Path("http_night", 1),
                                           Path("http_park", 2)>>)>>]

TwoPlans == [Sample.button_plans EXCEPT ![1].name = "other"] \o Sample.button_plans
TwoPhones ==
    [Sample EXCEPT !.button_plans = TwoPlans, !.expire_path = "",
                   !.phones = @ \o <<Phone("second", "other", <<Path("http_night", 2)>>)>>]
OtherLot == [Park(2) EXCEPT !.target = "other"]
OneId == [Sample EXCEPT !.button_plans[1].buttons = <<Night(1), Park(1), Park(2), OtherLot>>]
SamePlan == [Sample EXCEPT !.phones = @ \o <<Phone("second", "plan", <<>>)>>]
SameName == [TwoPhones EXCEPT !.phones[2].name = "phone"]
NoPlan == [Sample EXCEPT !.phones[1].button_plan = "other"]
NoProvider == [Sample EXCEPT !.phonebooks[2].provider = "none"]
NoButton == [Sample EXCEPT !.phones[1].http_paths[2].button_id = 3]
NoPark == [Sample EXCEPT !.phones[1].http_paths[3].button_id = 3]
WithExpiry == [Sample EXCEPT !.phonebooks =
                  <<[path |-> "/book", provider |-> "default", expiry |-> 60]>>]

MCConfigs == {Sample, TwoPhones, OneId, SamePlan, SameName, NoPlan, NoProvider,
              NoButton, NoPark, WithExpiry}
MCSample == {Sample}
MCSchema == {WithExpiry}
=============================================================================
