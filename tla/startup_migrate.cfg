\* A first start killed once.
SPECIFICATION Spec
CONSTANTS
  File = {f1}
  MaxKills = 1
  MaxErrors = 0
PROPERTIES MigrationCompletes
